---- MODULE Spec2Model ----
(***************************************************************************)
(* State-machine model of the xiaozhi client engine (src/xiaozhi.py):      *)
(* SecureStore, IdentityManager, DeviceStateManager, OTAManager,           *)
(* Activator, WebSocketClient and XiaozhiEngine.                           *)
(*                                                                         *)
(* Coroutines are cut at their await points.  Context 0 is the host's      *)
(* coroutine (boot, complete_activation, disconnect); context k >= 1 is    *)
(* the _listen_messages task of socket k, which also runs the reconnect    *)
(* that its connection error schedules.  The heartbeat task has its own    *)
(* program counter.                                                        *)
(***************************************************************************)
EXTENDS Integers, Sequences, FiniteSets, TLC

\* ------------------------------------------------------------------ bounds
MaxSockets == 2          \* sockets websockets.connect may hand out in one run
MaxGen == 1              \* distinct random identities IdentityManager may draw
MaxMissCount == 5        \* cap of heartbeat_timeout_count (the code has none)
MaxFrames == 3           \* frames on the wire in the frame-demultiplexing runs
MaxPending == 1          \* 202 answers to one submit_activation while sockets are modelled
MaxOrderFrames == 4      \* whole messages on the wire in the callback-order runs

\* ------------------------------------------------------- program constants
max_attempts == 60               \* Activator.submit_activation
max_reconnect_attempts == 5      \* WebSocketClient.__init__
max_heartbeat_timeout == 5       \* WebSocketClient.__init__
PollInterval == 5                \* Activator._poll_activation_status
DefaultSampleRate == 16000       \* WebSocketClient.__init__
reconnect_intervals == <<1, 2, 4, 8, 15>>

\* ------------------------------------------------------------ option type
\* Python's None is the empty tuple, a present value v is <<v>>.
None == <<>>
Some(v) == <<v>>

\* ---------------------------------------------------------------- domains
\* DeviceState
UNINITIALIZED == "uninitialized"
PENDING_ACTIVATION == "pendingActivation"
ACTIVATED == "activated"
WS_CONNECTING == "wsConnecting"
WS_READY == "wsReady"
STREAMING == "streaming"
DeviceState == {UNINITIALIZED, PENDING_ACTIVATION, ACTIVATED, WS_CONNECTING, WS_READY, STREAMING}

\* ActivationStage
IDLE == "idle"
NEED_CODE == "needCode"
POLLING == "polling"
STAGE_ACTIVATED == "stageActivated"
ActivationStage == {IDLE, NEED_CODE, POLLING, STAGE_ACTIVATED}

\* PersistKey
PersistKey == {"device_id", "client_id", "serial", "hmac_key", "activated", "websocket_url", "websocket_token"}

\* Strings the program inspects character by character are tuples of characters.
UrlSlash == <<"x", "/">>         \* wss://x/y/
UrlNoSlash == <<"x">>            \* wss://x/y
Urls == {UrlSlash, UrlNoSlash}
Token == <<"T">>
Challenges == {<<"C">>, <<>>}    \* complete_activation(challenge): any host string, also ""
Code == <<"1">>
HelloRates == {24000}            \* audio_params.sample_rate values a server hello may carry
SessionIds == {<<"s">>}          \* session_id values a server hello may carry

Hosts == {0}
Listeners == 1..MaxSockets
Ctx == Hosts \cup Listeners

VARIABLES
    store,                    \* SecureStore file: PersistKey -> option
    writable,                 \* the file can be written: open(_store_file, 'w') succeeds
    current_state,            \* DeviceStateManager.current_state
    current_stage,            \* Activator.current_stage
    is_activating,            \* Activator.is_activating
    current_endpoint,         \* Activator.current_endpoint is set
    connection_state,         \* WebSocketClient.connection_state
    session_id,               \* WebSocketClient.session_id (option)
    downstream_sample_rate,   \* WebSocketClient.downstream_sample_rate
    websocket,                \* WebSocketClient.websocket: 0 is None, k is socket k
    json_buffer,              \* WebSocketClient.json_buffer (bytes)
    reconnect_attempts,       \* WebSocketClient.reconnect_attempts
    heartbeat_task,           \* WebSocketClient.heartbeat_task is not None
    heartbeat_timeout_count,  \* WebSocketClient.heartbeat_timeout_count
    last_url,                 \* WebSocketClient.last_url (option)
    last_headers,             \* WebSocketClient.last_headers (option)
    sample_rate,              \* AudioPlayer.sample_rate
    audio_queue,              \* AudioPlayer.audio_queue (asyncio.Queue of packets)
    play_tasks,               \* the play_opus_data tasks created and not yet run, oldest first
    sockets,                  \* socket k: "unborn", "open", "closing", "closed"
    sent,                     \* frames[k]: the first frame the client wrote on socket k
                              \* and how many hellos (counted up to two), kept when
                              \* tracked is set
    pc,                       \* Ctx -> position of the coroutine
    local,                    \* Ctx -> the coroutine's local variables
    hbPc,                     \* position of the _heartbeat_loop task
    obs,                      \* what the latest step did (see ObsInit)
    wire,                     \* the binary frames the server has still to send
    heard                     \* the frames received so far, the host's callbacks for them
                              \* and the packets put on audio_queue

vars == <<store, writable, current_state, current_stage, is_activating, current_endpoint,
          connection_state, session_id, downstream_sample_rate, websocket, json_buffer,
          reconnect_attempts, heartbeat_task, heartbeat_timeout_count, last_url,
          last_headers, sample_rate, audio_queue, play_tasks, sockets, sent, pc, local, hbPc,
          obs, wire, heard>>

\* --------------------------------------------------------------- observer
\* The observer sees what the latest step did: act, the action taken; pre,
\* DeviceState before a step of a host operation; ret, the value the host
\* operation returned in the step; errors, the arguments of the calls of the
\* host's on_error made in the step, in order; connects, the calls of
\* WebSocketClient.connect made in the step; calls, the host's other
\* callbacks invoked in the step, in order; frame, the binary frame the
\* step received; ctx, the coroutine that took the step, when it is a step
\* of connect or of a reconnection; polls and sleeps, the requests
\* poll_activate has sent and the sleeps between them that have ended in the
\* call of complete_activation the step belongs to; writes, the messages the
\* step handed to websocket.send of an open socket, each with the DeviceState
\* at that moment; reply, the body request_config returned in the step;
\* ensured, what ensure_activated returned in the step and the store and
\* DeviceState at its return; args, the arguments of the call of
\* IdentityManager.current the step is; identity, the identity that call
\* returned; stores, the contents of the store file after each write of the
\* step, in order. A call of boot or complete_activation, a hello received
\* and an answer to poll_activate or to the second request_config are recorded
\* in args too. transitions: the states DeviceStateManager.transition was
\* called with, in order.
ObsInit == [act |-> "none", pre |-> "none", ret |-> "none", errors |-> <<>>, connects |-> <<>>,
            calls |-> <<>>, frame |-> None, ctx |-> None, polls |-> 0, sleeps |-> 0,
            writes |-> <<>>, reply |-> None, ensured |-> None, args |-> <<>>,
            identity |-> None, stores |-> <<>>, transitions |-> <<>>]

\* The program's whole state as one record, so that each function of the
\* source is a function from state to state and calls compose as in the code.
Cur == [store |-> store, writable |-> writable, current_state |-> current_state, current_stage |-> current_stage,
        is_activating |-> is_activating, current_endpoint |-> current_endpoint,
        connection_state |-> connection_state, session_id |-> session_id,
        downstream_sample_rate |-> downstream_sample_rate, websocket |-> websocket,
        json_buffer |-> json_buffer, reconnect_attempts |-> reconnect_attempts,
        heartbeat_task |-> heartbeat_task, heartbeat_timeout_count |-> heartbeat_timeout_count,
        last_url |-> last_url, last_headers |-> last_headers, sample_rate |-> sample_rate,
        audio_queue |-> audio_queue, play_tasks |-> play_tasks,
        sockets |-> sockets, sent |-> sent, pc |-> pc, local |-> local, hbPc |-> hbPc, obs |-> ObsInit,
        wire |-> wire, heard |-> heard]

Act(m, name) == [m EXCEPT !.obs.act = name]
ActOf(m, name, c) == [m EXCEPT !.obs.act = name, !.obs.ctx = Some(c)]
HostAct(m, name) == [m EXCEPT !.obs.act = name, !.obs.pre = current_state]
Replied(m, json_data) == [m EXCEPT !.obs.reply = Some(json_data)]
Ensured(m, stage) ==
    [m EXCEPT !.obs.ensured = Some([stage |-> stage, state |-> m.current_state, store |-> m.store])]
HostCall(m, cb, args) == [m EXCEPT !.obs.calls = Append(@, [cb |-> cb, args |-> args])]
ConnectCall(m, c, url, started) ==
    [m EXCEPT !.obs.connects =
        Append(@, [ctx |-> c, state |-> m.current_state, url |-> url, started |-> started])]

Commit(m) ==
    /\ store' = m.store
    /\ writable' = m.writable
    /\ current_state' = m.current_state
    /\ current_stage' = m.current_stage
    /\ is_activating' = m.is_activating
    /\ current_endpoint' = m.current_endpoint
    /\ connection_state' = m.connection_state
    /\ session_id' = m.session_id
    /\ downstream_sample_rate' = m.downstream_sample_rate
    /\ websocket' = m.websocket
    /\ json_buffer' = m.json_buffer
    /\ reconnect_attempts' = m.reconnect_attempts
    /\ heartbeat_task' = m.heartbeat_task
    /\ heartbeat_timeout_count' = m.heartbeat_timeout_count
    /\ last_url' = m.last_url
    /\ last_headers' = m.last_headers
    /\ sample_rate' = m.sample_rate
    /\ audio_queue' = m.audio_queue
    /\ play_tasks' = m.play_tasks
    /\ sockets' = m.sockets
    /\ sent' = m.sent
    /\ pc' = m.pc
    /\ local' = m.local
    /\ hbPc' = m.hbPc
    /\ obs' = m.obs
    /\ wire' = m.wire
    /\ heard' = m.heard

\* Python truthiness of an optional string: None and "" are false.
Truthy(o) == o # None /\ o[1] # <<>>

\* ------------------------------------------------------- text and bytes
\* A text is a tuple of characters; a byte string is a tuple of 0..255.
\* Printable ASCII in code order, from code 32.
AsciiChars ==
    <<" ", "!", "\"", "#", "$", "%", "&", "'", "(", ")", "*", "+", ",", "-", ".", "/",
      "0", "1", "2", "3", "4", "5", "6", "7", "8", "9", ":", ";", "<", "=", ">", "?",
      "@", "A", "B", "C", "D", "E", "F", "G", "H", "I", "J", "K", "L", "M", "N", "O",
      "P", "Q", "R", "S", "T", "U", "V", "W", "X", "Y", "Z", "[", "\\", "]", "^", "_",
      "U+0060", "a", "b", "c", "d", "e", "f", "g", "h", "i", "j", "k", "l", "m", "n", "o",
      "p", "q", "r", "s", "t", "u", "v", "w", "x", "y", "z", "{", "|", "}", "~">>

\* The code point of a character; the grave accent and the two CJK
\* characters of scenario S5 are written by their names.
CodePoint(ch) ==
    IF ch = "U+4F60" THEN 20320
    ELSE IF ch = "U+597D" THEN 22909
    ELSE 31 + CHOOSE i \in 1..Len(AsciiChars) : AsciiChars[i] = ch

\* The UTF-8 encoding of one code point.
Utf8Char(cp) ==
    IF cp < 128 THEN <<cp>>
    ELSE IF cp < 2048 THEN <<192 + (cp \div 64), 128 + (cp % 64)>>
    ELSE IF cp < 65536
    THEN <<224 + (cp \div 4096), 128 + ((cp \div 64) % 64), 128 + (cp % 64)>>
    ELSE <<240 + (cp \div 262144), 128 + ((cp \div 4096) % 64), 128 + ((cp \div 64) % 64),
           128 + (cp % 64)>>

\* str.encode('utf-8')
RECURSIVE Encode(_)
Encode(text) ==
    IF text = <<>> THEN <<>> ELSE Utf8Char(CodePoint(Head(text))) \o Encode(Tail(text))

\* The byte of an ASCII character.
B(ch) == CodePoint(ch)

\* bytes.decode('utf-8') succeeds on b from position i on.
IsCont(b, i) == i <= Len(b) /\ b[i] \in 128..191
RECURSIVE Utf8ValidFrom(_, _)
Utf8ValidFrom(b, i) ==
    IF i > Len(b) THEN TRUE
    ELSE LET c == b[i]
         IN  IF c < 128 THEN Utf8ValidFrom(b, i + 1)
             ELSE IF c \in 194..223
             THEN IsCont(b, i + 1) /\ Utf8ValidFrom(b, i + 2)
             ELSE IF c \in 224..239
             THEN /\ IsCont(b, i + 1)
                  /\ c = 224 => b[i + 1] >= 160
                  /\ c = 237 => b[i + 1] <= 159
                  /\ IsCont(b, i + 2)
                  /\ Utf8ValidFrom(b, i + 3)
             ELSE IF c \in 240..244
             THEN /\ IsCont(b, i + 1)
                  /\ c = 240 => b[i + 1] >= 144
                  /\ c = 244 => b[i + 1] <= 143
                  /\ IsCont(b, i + 2)
                  /\ IsCont(b, i + 3)
                  /\ Utf8ValidFrom(b, i + 4)
             ELSE FALSE
Utf8Valid(b) == Utf8ValidFrom(b, 1)

\* ------------------------------------------------------------ json.loads
\* A JSON value: t is its kind, s the bytes of a string or number or the
\* name of a literal, m the members (<<key, value>>) or elements.
JStr(s) == [t |-> "str", s |-> s, m |-> <<>>]
JNum(s) == [t |-> "num", s |-> s, m |-> <<>>]
JLit(name) == [t |-> "lit", s |-> name, m |-> <<>>]
JObj(m) == [t |-> "obj", s |-> <<>>, m |-> m]
JArr(m) == [t |-> "arr", s |-> <<>>, m |-> m]
ParseFail == [ok |-> FALSE, i |-> 0, v |-> JLit(<<>>)]
Parsed(i, v) == [ok |-> TRUE, i |-> i, v |-> v]

At(b, i, ch) == i <= Len(b) /\ b[i] = B(ch)
IsDigit(b, i) == i <= Len(b) /\ b[i] \in B("0")..B("9")
StartsWith(b, i, lit) ==
    /\ i + Len(lit) - 1 <= Len(b)
    /\ \A k \in 1..Len(lit) : b[i + k - 1] = lit[k]

RECURSIVE SkipWs(_, _)
SkipWs(b, i) ==
    IF i <= Len(b) /\ b[i] \in {32, 9, 10, 13} THEN SkipWs(b, i + 1) ELSE i

RECURSIVE DigitsEnd(_, _)
DigitsEnd(b, i) == IF IsDigit(b, i) THEN DigitsEnd(b, i + 1) ELSE i

HexValue(c) ==
    IF c \in B("0")..B("9") THEN c - B("0")
    ELSE IF c \in B("a")..B("f") THEN c - B("a") + 10
    ELSE IF c \in B("A")..B("F") THEN c - B("A") + 10
    ELSE 0 - 1
Unescape(c) ==
    IF c = B("b") THEN 8 ELSE IF c = B("f") THEN 12 ELSE IF c = B("n") THEN 10
    ELSE IF c = B("r") THEN 13 ELSE IF c = B("t") THEN 9 ELSE c

\* The string whose opening quote is before position i; acc is its value so far.
RECURSIVE ParseString(_, _, _)
ParseString(b, i, acc) ==
    IF i > Len(b) THEN ParseFail
    ELSE LET c == b[i]
         IN  IF c = B("\"") THEN Parsed(i + 1, JStr(acc))
             ELSE IF c < 32 THEN ParseFail
             ELSE IF c # B("\\") THEN ParseString(b, i + 1, Append(acc, c))
             ELSE IF i + 1 > Len(b) THEN ParseFail
             ELSE IF b[i + 1] \in {B("\""), B("\\"), B("/"), B("b"), B("f"), B("n"), B("r"),
                                   B("t")}
             THEN ParseString(b, i + 2, Append(acc, Unescape(b[i + 1])))
             ELSE IF /\ b[i + 1] = B("u")
                     /\ i + 5 <= Len(b)
                     /\ \A k \in 2..5 : HexValue(b[i + k]) >= 0
             THEN ParseString(b, i + 6,
                      acc \o Utf8Char(4096 * HexValue(b[i + 2]) + 256 * HexValue(b[i + 3])
                                      + 16 * HexValue(b[i + 4]) + HexValue(b[i + 5])))
             ELSE ParseFail

\* The number at position i: -?(0|[1-9][0-9]*)(\.[0-9]+)?([eE][-+]?[0-9]+)?
ParseNumber(b, i) ==
    LET j0 == IF At(b, i, "-") THEN i + 1 ELSE i
        j1 == IF At(b, j0, "0") THEN j0 + 1 ELSE DigitsEnd(b, j0)
        j2 == IF At(b, j1, ".") /\ IsDigit(b, j1 + 1) THEN DigitsEnd(b, j1 + 1) ELSE j1
        e0 == IF At(b, j2 + 1, "-") \/ At(b, j2 + 1, "+") THEN j2 + 2 ELSE j2 + 1
        j3 == IF (At(b, j2, "e") \/ At(b, j2, "E")) /\ IsDigit(b, e0)
              THEN DigitsEnd(b, e0) ELSE j2
    IN  IF IsDigit(b, j0) THEN Parsed(j3, JNum(SubSeq(b, i, j3 - 1))) ELSE ParseFail

RECURSIVE ParseValue(_, _), ParseMembers(_, _, _), ParseElements(_, _, _)
RECURSIVE AfterKey(_, _, _), AfterMember(_, _, _, _), AfterElement(_, _, _)
ParseValue(b, i) ==
    IF i > Len(b) THEN ParseFail
    ELSE IF At(b, i, "\"") THEN ParseString(b, i + 1, <<>>)
    ELSE IF At(b, i, "{")
    THEN LET j == SkipWs(b, i + 1)
         IN  IF At(b, j, "}") THEN Parsed(j + 1, JObj(<<>>)) ELSE ParseMembers(b, j, <<>>)
    ELSE IF At(b, i, "[")
    THEN LET j == SkipWs(b, i + 1)
         IN  IF At(b, j, "]") THEN Parsed(j + 1, JArr(<<>>)) ELSE ParseElements(b, j, <<>>)
    ELSE IF StartsWith(b, i, Encode(<<"n", "u", "l", "l">>))
    THEN Parsed(i + 4, JLit(<<"n", "u", "l", "l">>))
    ELSE IF StartsWith(b, i, Encode(<<"t", "r", "u", "e">>))
    THEN Parsed(i + 4, JLit(<<"t", "r", "u", "e">>))
    ELSE IF StartsWith(b, i, Encode(<<"f", "a", "l", "s", "e">>))
    THEN Parsed(i + 5, JLit(<<"f", "a", "l", "s", "e">>))
    ELSE IF StartsWith(b, i, Encode(<<"N", "a", "N">>))
    THEN Parsed(i + 3, JLit(<<"N", "a", "N">>))
    ELSE IF StartsWith(b, i, Encode(<<"I", "n", "f", "i", "n", "i", "t", "y">>))
    THEN Parsed(i + 8, JLit(<<"I", "n", "f", "i", "n", "i", "t", "y">>))
    ELSE IF StartsWith(b, i, Encode(<<"-", "I", "n", "f", "i", "n", "i", "t", "y">>))
    THEN Parsed(i + 9, JLit(<<"-", "I", "n", "f", "i", "n", "i", "t", "y">>))
    ELSE ParseNumber(b, i)

\* The members of an object from the key at position i on.
ParseMembers(b, i, acc) ==
    IF At(b, i, "\"") THEN AfterKey(b, ParseString(b, i + 1, <<>>), acc) ELSE ParseFail
AfterKey(b, key, acc) ==
    IF key.ok /\ At(b, SkipWs(b, key.i), ":")
    THEN AfterMember(b, key.v.s, ParseValue(b, SkipWs(b, SkipWs(b, key.i) + 1)), acc)
    ELSE ParseFail
AfterMember(b, name, val, acc) ==
    IF ~val.ok THEN ParseFail
    ELSE IF At(b, SkipWs(b, val.i), "}")
    THEN Parsed(SkipWs(b, val.i) + 1, JObj(Append(acc, <<name, val.v>>)))
    ELSE IF At(b, SkipWs(b, val.i), ",")
    THEN ParseMembers(b, SkipWs(b, SkipWs(b, val.i) + 1), Append(acc, <<name, val.v>>))
    ELSE ParseFail

\* The elements of an array from the value at position i on.
ParseElements(b, i, acc) == AfterElement(b, ParseValue(b, i), acc)
AfterElement(b, val, acc) ==
    IF ~val.ok THEN ParseFail
    ELSE IF At(b, SkipWs(b, val.i), "]")
    THEN Parsed(SkipWs(b, val.i) + 1, JArr(Append(acc, val.v)))
    ELSE IF At(b, SkipWs(b, val.i), ",")
    THEN ParseElements(b, SkipWs(b, SkipWs(b, val.i) + 1), Append(acc, val.v))
    ELSE ParseFail

\* json.loads of decoded bytes: one value, blanks before and after it.
WholeValue(b, r) == IF r.ok /\ SkipWs(b, r.i) = Len(b) + 1 THEN r ELSE ParseFail
JsonLoads(b) == WholeValue(b, ParseValue(b, SkipWs(b, 1)))

\* dict.get(key): the value of the last member named key, or None.
DictGet(v, key) ==
    LET hits == {k \in 1..Len(v.m) : v.m[k][1] = Encode(key)}
    IN  IF hits = {} THEN None
        ELSE Some(v.m[CHOOSE k \in hits : \A h \in hits : h <= k][2])

\* Python truthiness of the result of dict.get.
JTruthy(o) ==
    /\ o # None
    /\ IF o[1].t \in {"str"} THEN o[1].s # <<>>
       ELSE IF o[1].t = "num" THEN \E k \in 1..Len(o[1].s) : o[1].s[k] \in B("1")..B("9")
       ELSE IF o[1].t = "lit" THEN o[1].s \notin {<<"n", "u", "l", "l">>, <<"f", "a", "l", "s", "e">>}
       ELSE o[1].m # <<>>

\* ------------------------------------------------------------ SecureStore
EmptyStore == [k \in PersistKey |-> None]
StoreGet(m, key) == m.store[key]
\* SecureStore.set and remove: a write that fails is logged and the call
\* returns as if it had succeeded.
StoreSet(m, key, value) ==
    IF ~m.writable THEN m
    ELSE [m EXCEPT !.store[key] = Some(value),
                   !.obs.stores = Append(@, [m.store EXCEPT ![key] = Some(value)])]
StoreRemove(m, key) ==
    IF ~m.writable THEN m
    ELSE [m EXCEPT !.store[key] = None,
                   !.obs.stores = Append(@, [m.store EXCEPT ![key] = None])]

\* -------------------------------------------------------- IdentityManager
\* A generated identity is named by the random draw g that produced it.
_generate_virtual_mac(g) == <<"02:00:00", g>>
_generate_serial(mac) == <<"SN", mac[2]>>
_random_hex(g) == <<"key", g>>
NewUuid(g) == <<"uuid", g>>

\* A variant that removes the device id where the code removes the flag.
ClearWrongKey(m) ==
    StoreRemove(StoreRemove(StoreRemove(m, "device_id"), "websocket_url"), "websocket_token")

\* IdentityManager.clear_activation_state
clear_activation_state(m) ==
    StoreRemove(StoreRemove(StoreRemove(m, "activated"), "websocket_url"), "websocket_token")

StoredIdentityComplete(m) ==
    /\ Truthy(StoreGet(m, "device_id"))
    /\ Truthy(StoreGet(m, "client_id"))
    /\ Truthy(StoreGet(m, "serial"))
    /\ Truthy(StoreGet(m, "hmac_key"))

\* A variant that generates an identity whatever the store holds.
CurrentAlwaysNew(m, force_new, g) ==
    LET device_id == _generate_virtual_mac(g)
        serial == _generate_serial(device_id)
        m1 == StoreSet(clear_activation_state(m), "device_id", device_id)
        m2 == StoreSet(m1, "client_id", NewUuid(g))
        m3 == StoreSet(m2, "serial", serial)
        m4 == StoreSet(m3, "hmac_key", _random_hex(g))
        m5 == StoreSet(m4, "activated", "false")
    IN  [m |-> m5,
         identity |-> [device_id |-> device_id, client_id |-> NewUuid(g),
                       serial |-> serial, hmac_key_hex |-> _random_hex(g),
                       activated |-> FALSE]]

\* IdentityManager.current: the identity returned and the state it leaves.
IdentityCurrent(m, force_new, g) ==
    IF ~force_new /\ StoredIdentityComplete(m)
    THEN [m |-> m,
          identity |-> [device_id |-> StoreGet(m, "device_id")[1],
                        client_id |-> StoreGet(m, "client_id")[1],
                        serial |-> StoreGet(m, "serial")[1],
                        hmac_key_hex |-> StoreGet(m, "hmac_key")[1],
                        activated |-> (StoreGet(m, "activated") = Some("true"))]]
    ELSE LET m0 == IF force_new THEN clear_activation_state(m) ELSE m
             device_id == _generate_virtual_mac(g)
             serial == _generate_serial(device_id)
             m1 == StoreSet(m0, "device_id", device_id)
             m2 == StoreSet(m1, "client_id", NewUuid(g))
             m3 == StoreSet(m2, "serial", serial)
             m4 == StoreSet(m3, "hmac_key", _random_hex(g))
             m5 == StoreSet(m4, "activated", "false")
         IN  [m |-> m5,
              identity |-> [device_id |-> device_id, client_id |-> NewUuid(g),
                            serial |-> serial, hmac_key_hex |-> _random_hex(g),
                            activated |-> FALSE]]

mark_as_activated(m) == StoreSet(m, "activated", "true")

\* ----------------------------------------------------- DeviceStateManager
transition(m, to_state) ==
    [m EXCEPT !.current_state = to_state, !.obs.transitions = Append(@, to_state)]
can_connect_websocket(m) == m.current_state \in {ACTIVATED, WS_CONNECTING, WS_READY}
CanSendWhenActivated(m) == m.current_state \in {ACTIVATED, WS_READY, STREAMING}
can_send_websocket_data(m) == m.current_state \in {WS_READY, STREAMING}

\* ---------------------------------------------------------- EndpointConfig
\* A variant that accepts every URL that is not empty.
AnyUrl(url) == Len(url) > 0
validate_websocket_url(url) == Len(url) > 0 /\ url[Len(url)] = "/"

\* ------------------------------------------------------- coroutine frames
\* polls and sleeps count, for the observer, the requests sent and the
\* sleeps ended in the running submit_activation; the code has no such fields.
LocalInit == [url |-> <<>>, headers |-> None, attempt |-> 0, challenge |-> <<>>,
              hmac |-> <<>>, serial |-> <<>>, delay |-> 0, sock |-> 0,
              polls |-> 0, sleeps |-> 0]

\* The coroutine of context c suspends at label with its locals updated.
Suspend(m, c, label, loc) == [m EXCEPT !.pc[c] = label, !.local[c] = loc]

\* The coroutine of context c returns to the event loop: the host is idle
\* again, a listen task has ended.
Finish(m, c) ==
    [m EXCEPT !.pc[c] = IF c \in Hosts THEN "idle" ELSE "done", !.local[c] = LocalInit]

\* XiaozhiEngine.on_error(kind), the host's callback.
HostOnError(m, c, kind) == [m EXCEPT !.obs.errors = Append(@, kind)]

\* -------------------------------------------------- XiaozhiEngine callbacks
_on_websocket_error(m, c, kind) ==
    LET m1 == IF m.current_state \in {WS_CONNECTING, WS_READY}
              THEN transition(m, ACTIVATED) ELSE m
    IN  HostOnError(m1, c, kind)

\* -------------------------------------------------------- WebSocketClient
\* connect, up to its first await (websockets.connect).
connect(m, c, url, headers) ==
    IF ~can_connect_websocket(m)
    THEN Finish(_on_websocket_error(ConnectCall(m, c, url, FALSE), c, "device_not_activated"), c)
    ELSE IF ~validate_websocket_url(url)
    THEN Finish(_on_websocket_error(ConnectCall(m, c, url, FALSE), c, "invalid_url"), c)
    ELSE LET m1 == [ConnectCall(m, c, url, TRUE) EXCEPT !.connection_state = "connecting"]
             m2 == transition(m1, WS_CONNECTING)
         IN  Suspend(m2, c, "connecting",
                     [m2.local[c] EXCEPT !.url = url, !.headers = Some(headers)])

\* ---------------------------------------------------------- XiaozhiEngine
_build_websocket_headers(token, device_id, client_id) ==
    [Authorization |-> IF token # <<>> THEN token ELSE <<"placeholder">>,
     DeviceId |-> device_id, ClientId |-> client_id]

_connect_websocket(m, c, g) ==
    IF ~can_connect_websocket(m)
    THEN Finish(HostOnError(m, c, "websocket_not_allowed"), c)
    ELSE LET ws_url == StoreGet(m, "websocket_url")
             ws_token == StoreGet(m, "websocket_token")
         IN  IF ~Truthy(ws_url) \/ ~Truthy(ws_token)
             THEN Finish(HostOnError(m, c, "missing_websocket_config"), c)
             ELSE LET m1 == transition(m, WS_CONNECTING)
                      cur == IdentityCurrent(m1, FALSE, g)
                      headers == _build_websocket_headers(ws_token[1],
                                     cur.identity.device_id, cur.identity.client_id)
                  IN  connect(cur.m, c, ws_url[1], headers)

\* -------------------------------------------------------------- OTAManager
\* The JSON bodies the activation endpoint may answer request_config with.
WsDict(u) == [url |-> Some(u), token |-> Some(Token)]
ActDict == [code |-> Some(Code), challenge |-> Some(<<"C">>)]
OtaReplies ==
    {[websocket |-> Some(WsDict(u)), activation |-> None] : u \in Urls}
    \cup {[websocket |-> None, activation |-> Some(ActDict)],
          [websocket |-> Some(WsDict(UrlSlash)), activation |-> Some(ActDict)],
          [websocket |-> None, activation |-> None],
          [websocket |-> Some([url |-> Some(UrlSlash), token |-> None]), activation |-> None]}

_parse_ota_response(json_data) ==
    [websocket |->
        IF json_data.websocket # None
           /\ json_data.websocket[1].url # None /\ json_data.websocket[1].token # None
        THEN Some([url |-> json_data.websocket[1].url[1],
                   token |-> json_data.websocket[1].token[1]])
        ELSE None,
     activation |->
        IF json_data.activation # None
           /\ json_data.activation[1].code # None /\ json_data.activation[1].challenge # None
        THEN Some([code |-> json_data.activation[1].code[1],
                   challenge |-> json_data.activation[1].challenge[1]])
        ELSE None]

\* --------------------------------------------------------------- Activator
\* Each handler returns the state it leaves and what it returns or raises.
DirectWithoutMark(m, ws) ==
    LET m1 == StoreSet(m, "websocket_url", ws.url)
        m2 == StoreSet(m1, "websocket_token", ws.token)
        m4 == transition([m2 EXCEPT !.current_stage = STAGE_ACTIVATED], ACTIVATED)
    IN  [m |-> [m4 EXCEPT !.is_activating = FALSE], raised |-> FALSE,
         stage |-> STAGE_ACTIVATED, code |-> None, challenge |-> None]

_handle_direct_authorization(m, ws) ==
    LET m1 == StoreSet(m, "websocket_url", ws.url)
        m2 == StoreSet(m1, "websocket_token", ws.token)
        m3 == mark_as_activated(m2)
        m4 == transition([m3 EXCEPT !.current_stage = STAGE_ACTIVATED], ACTIVATED)
    IN  [m |-> [m4 EXCEPT !.is_activating = FALSE], raised |-> FALSE,
         stage |-> STAGE_ACTIVATED, code |-> None, challenge |-> None]

_handle_activation_required(m, activation) ==
    [m |-> [m EXCEPT !.current_stage = NEED_CODE], raised |-> FALSE,
     stage |-> NEED_CODE, code |-> Some(activation.code),
     challenge |-> Some(activation.challenge)]

_handle_ota_response(m, response) ==
    IF response.activation # None
    THEN _handle_activation_required(m, response.activation[1])
    ELSE IF response.websocket # None
    THEN _handle_direct_authorization(m, response.websocket[1])
    ELSE [m |-> [m EXCEPT !.is_activating = FALSE], raised |-> TRUE,
          stage |-> IDLE, code |-> None, challenge |-> None]

\* ensure_activated(endpoint, force_new=False) up to its await of request_config;
\* the engine never passes force_new.
ensure_activated(m, c, g) ==
    LET m1 == [m EXCEPT !.current_endpoint = TRUE]
        cur == IdentityCurrent(m1, FALSE, g)
    IN  IF cur.identity.activated
        THEN [m |-> transition([cur.m EXCEPT !.current_stage = STAGE_ACTIVATED], ACTIVATED),
              returned |-> TRUE]
        ELSE LET m2 == transition(cur.m, PENDING_ACTIVATION)
                 m3 == [m2 EXCEPT !.is_activating = TRUE]
                 \* request_config reads the identity once more
                 m4 == IdentityCurrent(m3, FALSE, g).m
             IN  [m |-> Suspend(m4, c, "ota", m4.local[c]), returned |-> FALSE]

\* _start_activation_flow, up to the await inside ensure_activated.
_start_activation_flow(m, c, g) ==
    LET r == ensure_activated(m, c, g)
    IN  IF r.returned
        THEN _connect_websocket(transition(Ensured(r.m, STAGE_ACTIVATED), ACTIVATED), c, g)
        ELSE r.m

\* _start_activation_flow resumed with the reply to request_config.
ActivationFlowResume(m, c, g, json_data) ==
    LET r == _handle_ota_response(m, _parse_ota_response(json_data))
    IN  IF r.raised
        THEN Finish(HostOnError([r.m EXCEPT !.is_activating = FALSE], c,
                                "invalid_ota_response"), c)
        ELSE IF r.stage = NEED_CODE /\ Truthy(r.code) /\ Truthy(r.challenge)
        THEN Finish(HostCall(Ensured(r.m, r.stage), "on_activation_code",
                             <<r.code[1], r.challenge[1]>>), c)
        ELSE IF r.stage = STAGE_ACTIVATED
        THEN _connect_websocket(transition(Ensured(r.m, r.stage), ACTIVATED), c, g)
        ELSE Finish(Ensured(r.m, r.stage), c)

\* _start_activation_flow resumed with request_config raising (transport
\* failure, or a body that is no JSON).
ActivationFlowFailed(m, c) ==
    Finish(HostOnError([m EXCEPT !.is_activating = FALSE], c, "network_error"), c)

reset_activation(m) ==
    LET m1 == clear_activation_state(m)
        m2 == transition([m1 EXCEPT !.current_stage = IDLE], UNINITIALIZED)
    IN  [m2 EXCEPT !.is_activating = FALSE]

\* boot(force_new_device), up to its first await.
BootAsksAgain(m, c, force_new_device, g) ==
    LET cur == IdentityCurrent(m, force_new_device, g)
        m1 == IF force_new_device THEN reset_activation(cur.m) ELSE cur.m
    IN  _start_activation_flow(transition(m1, PENDING_ACTIVATION), c, g)

boot(m, c, force_new_device, g) ==
    LET cur == IdentityCurrent(m, force_new_device, g)
        m1 == IF force_new_device THEN reset_activation(cur.m) ELSE cur.m
    IN  IF ~cur.identity.activated
        THEN _start_activation_flow(transition(m1, PENDING_ACTIVATION), c, g)
        ELSE _connect_websocket(transition(m1, ACTIVATED), c, g)

\* reset()
reset(m) == reset_activation(transition(m, UNINITIALIZED))

\* ------------------------------------------- WebSocketClient, continued
SocketClosed(m, k) == m.sockets[k] = "closed"

\* asyncio.Task.cancel() on the heartbeat task by another coroutine: the task
\* is asleep or waiting for a pong and ends there.
CancelHeartbeat(m) == [m EXCEPT !.hbPc = "none"]

_start_heartbeat(m) ==
    LET m1 == IF m.heartbeat_task THEN CancelHeartbeat(m) ELSE m
    IN  [m1 EXCEPT !.heartbeat_task = TRUE, !.hbPc = "loop"]

\* XiaozhiEngine._on_websocket_handshake
HandshakeWithoutCallback(m) ==
    LET m1 == transition(m, WS_READY)
    IN  IF m1.downstream_sample_rate # m1.sample_rate
        THEN [m1 EXCEPT !.sample_rate = m1.downstream_sample_rate]
        ELSE m1

_on_websocket_handshake(m) ==
    LET m1 == transition(m, WS_READY)
        m2 == IF m1.downstream_sample_rate # m1.sample_rate
              THEN [m1 EXCEPT !.sample_rate = m1.downstream_sample_rate]
              ELSE m1
    IN  HostCall(m2, "on_websocket_ready",
                 <<IF Truthy(m2.session_id) THEN m2.session_id[1] ELSE <<>>,
                   m2.downstream_sample_rate>>)

\* A server hello: session_id and audio_params.sample_rate are optional.
Hellos == [session_id : {None} \cup {Some(x) : x \in SessionIds},
           sample_rate : {None} \cup {Some(r) : r \in HelloRates}]
PlainHellos == {h \in Hellos : h.session_id # None /\ h.sample_rate = None}

_handle_hello_response(m, data) ==
    LET m1 == [m EXCEPT !.session_id = data.session_id,
                        !.downstream_sample_rate =
                            IF data.sample_rate # None THEN data.sample_rate[1] ELSE @]
        m2 == transition([m1 EXCEPT !.connection_state = "ready"], WS_READY)
        m3 == _start_heartbeat(m2)
        m4 == [m3 EXCEPT !.reconnect_attempts = 0]
    IN  _on_websocket_handshake(m4)

\* _schedule_reconnect up to its sleep; connect never raises (it reports
\* through on_error), so the retry in the except clause is never taken.
_schedule_reconnect(m, c) ==
    IF m.reconnect_attempts >= max_reconnect_attempts
    THEN Finish(m, c)
    ELSE IF ~Truthy(m.last_url) \/ m.last_headers = None
    THEN Finish(m, c)
    ELSE LET idx == IF m.reconnect_attempts < Len(reconnect_intervals) - 1
                    THEN m.reconnect_attempts ELSE Len(reconnect_intervals) - 1
             delay == reconnect_intervals[idx + 1]
             m1 == [m EXCEPT !.reconnect_attempts = @ + 1]
         IN  Suspend(m1, c, "reconnectSleep", [m1.local[c] EXCEPT !.delay = delay])

\* _handle_connection_error called by the listen task c.
_handle_connection_error(m, c, kind) ==
    LET m1 == [m EXCEPT !.connection_state = "error"]
        m2 == IF m1.heartbeat_task
              THEN [CancelHeartbeat(m1) EXCEPT !.heartbeat_task = FALSE] ELSE m1
        m3 == _on_websocket_error(m2, c, kind)
    IN  _schedule_reconnect(m3, c)

\* _handle_connection_error called by the heartbeat task itself: cancel()
\* marks the running task, which goes on to the sleep of _schedule_reconnect
\* (hbPc "reconnectSleep"), where the CancelledError is delivered.
HeartbeatConnectionError(m, kind) ==
    LET m1 == [m EXCEPT !.connection_state = "error", !.heartbeat_task = FALSE]
        m2 == _on_websocket_error(m1, 0 - 1, kind)
    IN  IF m2.reconnect_attempts >= max_reconnect_attempts
        THEN [m2 EXCEPT !.hbPc = "none"]
        ELSE IF ~Truthy(m2.last_url) \/ m2.last_headers = None
        THEN [m2 EXCEPT !.hbPc = "none"]
        ELSE [m2 EXCEPT !.reconnect_attempts = @ + 1, !.hbPc = "reconnectSleep"]

\* One failed ping of _heartbeat_loop (both except clauses).
HeartbeatMiss(m, kind) ==
    LET m1 == [m EXCEPT !.heartbeat_timeout_count = @ + 1]
    IN  IF m1.heartbeat_timeout_count >= max_heartbeat_timeout
        THEN HeartbeatConnectionError(m1, kind)
        ELSE [m1 EXCEPT !.hbPc = "loop"]

\* connect resumed: websockets.connect returned socket k.
ConnectResumeOpened(m, c, k) ==
    LET m1 == [m EXCEPT !.websocket = k, !.sockets[k] = "open",
                        !.last_url = Some(m.local[c].url),
                        !.last_headers = m.local[c].headers,
                        !.reconnect_attempts = 0,
                        !.pc[k] = "listen"]
    IN  Suspend(m1, c, "helloSleep", m1.local[c])

\* connect resumed: websockets.connect raised.
ConnectResumeFailed(m, c) ==
    Finish(_on_websocket_error([m EXCEPT !.connection_state = "error"], c, "connect_failed"), c)

\* websocket.send(message) on an open socket.
SocketSend(m, message) ==
    [m EXCEPT !.obs.writes = Append(@, [message |-> message, state |-> m.current_state]),
              !.sent.frames[m.websocket] =
                  IF ~m.sent.tracked THEN @
                  ELSE [first |-> IF @.first = None THEN Some(message.type) ELSE @.first,
                        hellos |-> IF message.type = "hello" /\ @.hellos < 2
                                   THEN @.hellos + 1 ELSE @.hellos]]

\* The messages of the client: the hello and the listen messages are text,
\* audio is bytes.
TextMessage(type, state, extra) == [bytes |-> FALSE, type |-> type, state |-> state, extra |-> extra]
BytesMessage == [bytes |-> TRUE, type |-> "audio", state |-> "", extra |-> <<>>]
HelloMessage == TextMessage("hello", "", <<>>)

send_message(m, c, message) ==
    IF m.websocket = 0
    THEN m
    ELSE IF message.bytes /\ ~can_send_websocket_data(m)
    THEN m
    ELSE IF m.sockets[m.websocket] = "open"
    THEN SocketSend(m, message)
    ELSE _on_websocket_error(m, c, "send_failed")

\* json.dumps of a dict of strings does not fail.
send_json_message(m, c, message_obj) == send_message(m, c, message_obj)

\* XiaozhiEngine.send_text_message, start_listening, stop_listening.
send_text_message(m, c, text) ==
    IF ~can_send_websocket_data(m)
    THEN m
    ELSE send_json_message(m, c, TextMessage("listen", "detect", <<m.session_id, text>>))

start_listening(m, c, mode) ==
    IF ~can_send_websocket_data(m)
    THEN m
    ELSE send_json_message(m, c, TextMessage("listen", "start", <<m.session_id, mode>>))

stop_listening(m, c) ==
    IF ~can_send_websocket_data(m)
    THEN m
    ELSE send_json_message(m, c, TextMessage("listen", "stop", <<m.session_id>>))

\* connect resumed after its sleep of 0.5 s: _send_hello_message.
_send_hello_message(m, c) ==
    IF m.connection_state # "connecting"
    THEN Finish(m, c)
    ELSE Finish(send_message([m EXCEPT !.connection_state = "handshaking"], c, HelloMessage), c)

\* _schedule_reconnect resumed after its sleep, up to its next await.
ReconnectResume(m, c) ==
    IF m.websocket # 0 /\ ~SocketClosed(m, m.websocket)
    THEN Suspend([m EXCEPT !.sockets[m.websocket] = "closing"], c, "reconnectClosing",
                 [m.local[c] EXCEPT !.sock = m.websocket])
    ELSE connect(m, c, m.last_url[1], m.last_headers[1])

\* WebSocketClient.disconnect up to its await of close(), and after it.
DisconnectTail(m, c) ==
    LET m1 == [m EXCEPT !.websocket = 0, !.connection_state = "disconnected",
                        !.session_id = None, !.reconnect_attempts = 0]
    IN  Finish(transition(m1, ACTIVATED), c)

disconnect(m, c) ==
    LET m1 == IF m.heartbeat_task
              THEN [CancelHeartbeat(m) EXCEPT !.heartbeat_task = FALSE] ELSE m
    IN  IF m1.websocket # 0 /\ ~SocketClosed(m1, m1.websocket)
        THEN Suspend([m1 EXCEPT !.sockets[m1.websocket] = "closing"], c, "disconnectClosing",
                     [m1.local[c] EXCEPT !.sock = m1.websocket])
        ELSE DisconnectTail(m1, c)

\* ------------------------------------------------------------------ Crypto
\* hmac_sha256_hex returns "" when the key is no hexadecimal string.
hmac_sha256_hex(key_hex, data) ==
    IF Len(key_hex) = 2 /\ key_hex[1] = "key" THEN <<"hmac", key_hex, data>> ELSE <<>>

\* ------------------------------------------------- Activator, continued
\* What the activation endpoint may answer poll_activate with: a status and
\* whether the error body contains the text "activation_timeout"; or the
\* request fails in transport.
PollReplies ==
    {[failed |-> FALSE, status |-> 200, timeout_text |-> FALSE],
     [failed |-> FALSE, status |-> 202, timeout_text |-> FALSE],
     [failed |-> FALSE, status |-> 500, timeout_text |-> FALSE],
     [failed |-> FALSE, status |-> 500, timeout_text |-> TRUE],
     [failed |-> TRUE, status |-> 0, timeout_text |-> FALSE]}

\* poll_activate's result: "ok", or the exception it raises, told apart by
\* the test the caller applies ("activation_timeout" in str(e)).
PollOutcome(reply) ==
    IF reply.failed THEN "raise_other"
    ELSE IF reply.status = 200 THEN "ok"
    ELSE IF reply.status = 202 THEN "raise_timeout"
    ELSE IF reply.timeout_text THEN "raise_timeout" ELSE "raise_other"

\* A variant that reports the failure and leaves the stage at polling.
FailedKeepsStage(m, c) ==
    Finish(HostOnError([m EXCEPT !.is_activating = FALSE, !.obs.ret = "False"], c,
                       "activation_failed"), c)

\* complete_activation after submit_activation returned False.
SubmitFailed(m, c) ==
    LET m1 == [m EXCEPT !.current_stage = IDLE, !.is_activating = FALSE]
    IN  Finish(HostOnError([m1 EXCEPT !.obs.ret = "False"], c, "activation_failed"), c)

\* The observer notes how many requests and sleeps the call has made.
Polled(m, loc) == [m EXCEPT !.obs.polls = loc.polls, !.obs.sleeps = loc.sleeps]

\* A variant that returns True without trying to connect.
SucceededSilently(m, c, g) ==
    Finish(transition([m EXCEPT !.obs.ret = "True"], ACTIVATED), c)

\* complete_activation after submit_activation returned True.
SubmitSucceeded(m, c, g) ==
    _connect_websocket(transition([m EXCEPT !.obs.ret = "True"], ACTIVATED), c, g)

\* A variant without the parameter check.
PollUnchecked(m, c, g, loc) ==
    Suspend(Polled(IdentityCurrent(m, FALSE, g).m, [loc EXCEPT !.polls = @ + 1]), c, "poll",
            [loc EXCEPT !.polls = @ + 1])

\* One call of poll_activate up to its HTTP request: the parameter check.
poll_activate(m, c, g, loc) ==
    IF loc.serial = <<>> \/ loc.challenge = <<>> \/ loc.hmac = <<>>
    THEN SubmitFailed(Polled(m, loc), c)
    ELSE Suspend(Polled(IdentityCurrent(m, FALSE, g).m, [loc EXCEPT !.polls = @ + 1]), c, "poll",
                 [loc EXCEPT !.polls = @ + 1])

\* submit_activation up to the first HTTP request.
submit_activation(m, c, challenge, g) ==
    LET cur == IdentityCurrent(m, FALSE, g)
        m1 == [cur.m EXCEPT !.current_stage = POLLING]
        hmac_signature == hmac_sha256_hex(cur.identity.hmac_key_hex, challenge)
    IN  poll_activate(m1, c, g, [m1.local[c] EXCEPT !.serial = cur.identity.serial,
                                     !.challenge = challenge, !.hmac = hmac_signature,
                                     !.attempt = 1, !.polls = 0, !.sleeps = 0])

ActivationDone(m) ==
    [transition([m EXCEPT !.current_stage = STAGE_ACTIVATED], ACTIVATED)
        EXCEPT !.is_activating = FALSE]

\* _handle_activation_success up to its await of request_config.
_handle_activation_success(m, c, g) ==
    LET m1 == mark_as_activated(m)
        m2 == IdentityCurrent(m1, FALSE, g).m
    IN  IF ~m2.current_endpoint
        THEN SubmitSucceeded(ActivationDone(m2), c, g)
        ELSE Suspend(IdentityCurrent(m2, FALSE, g).m, c, "ota2", m2.local[c])

\* _poll_activation_status resumed with the reply to poll_activate.
PollResumed(m, c, g, outcome) ==
    IF outcome = "ok"
    THEN _handle_activation_success(m, c, g)
    ELSE IF outcome = "raise_timeout" /\ m.local[c].attempt < max_attempts
    THEN Suspend(m, c, "pollSleep", [m.local[c] EXCEPT !.delay = PollInterval])
    ELSE SubmitFailed(m, c)

\* A variant that polls once more than max_attempts.
PollOnceMore(m, c, g, reply) ==
    IF PollOutcome(reply) = "ok"
    THEN _handle_activation_success(Polled(m, m.local[c]), c, g)
    ELSE IF PollOutcome(reply) = "raise_timeout" /\ m.local[c].attempt <= max_attempts
    THEN Suspend(Polled(m, m.local[c]), c, "pollSleep",
                 [m.local[c] EXCEPT !.delay = PollInterval])
    ELSE SubmitFailed(Polled(m, m.local[c]), c)

PollResume(m, c, g, reply) == PollResumed(Polled(m, m.local[c]), c, g, PollOutcome(reply))

\* _poll_activation_status resumed after asyncio.sleep(5.0): the next attempt.
PollSleepResume(m, c, g) ==
    poll_activate(m, c, g, [m.local[c] EXCEPT !.attempt = @ + 1, !.sleeps = @ + 1])

\* _handle_activation_success resumed with the reply to request_config.
Ota2Resume(m, c, g, json_data) ==
    LET response == _parse_ota_response(json_data)
        m1 == IF response.websocket # None
              THEN StoreSet(StoreSet(m, "websocket_url", response.websocket[1].url),
                            "websocket_token", response.websocket[1].token)
              ELSE m
    IN  SubmitSucceeded(ActivationDone(m1), c, g)

Ota2Failed(m, c, g) == SubmitSucceeded(ActivationDone(m), c, g)

\* ------------------------------------------------------ incoming frames
RECURSIVE IntOf(_)
IntOf(s) == IF s = <<>> THEN 0 ELSE 10 * IntOf(SubSeq(s, 1, Len(s) - 1)) + (s[Len(s)] - B("0"))

\* What _handle_hello_response reads of a parsed hello: session_id, and
\* audio_params.sample_rate when audio_params is an object that has one.
HelloData(data) ==
    LET sid == DictGet(data, <<"s", "e", "s", "s", "i", "o", "n", "_", "i", "d">>)
        ap == DictGet(data, <<"a", "u", "d", "i", "o", "_", "p", "a", "r", "a", "m", "s">>)
        sr == IF ap # None /\ ap[1].t = "obj"
              THEN DictGet(ap[1], <<"s", "a", "m", "p", "l", "e", "_", "r", "a", "t", "e">>)
              ELSE None
    IN  [session_id |-> IF sid = None \/ sid[1] = JLit(<<"n", "u", "l", "l">>)
                        THEN None ELSE Some(sid[1].s),
         sample_rate |-> IF sr = None THEN None
                         ELSE IF sr[1].t = "num" /\ \A k \in 1..Len(sr[1].s) : IsDigit(sr[1].s, k)
                         THEN Some(IntOf(sr[1].s))
                         ELSE Some(sr[1])]

\* _handle_tts_message, through XiaozhiEngine._on_tts_message
_handle_tts_message(m, data) ==
    HostCall(m, "on_tts", <<DictGet(data, <<"s", "t", "a", "t", "e">>),
                            DictGet(data, <<"t", "e", "x", "t">>)>>)

\* _handle_llm_message, through XiaozhiEngine._on_emotion
_handle_llm_message(m, data) ==
    LET emotion == DictGet(data, <<"e", "m", "o", "t", "i", "o", "n">>)
    IN  IF JTruthy(emotion) THEN HostCall(m, "on_emotion", <<emotion>>) ELSE m

\* _handle_mcp_message: XiaozhiEngine._on_mcp_message does nothing.
_handle_mcp_message(m, data) == m

\* A variant whose play task runs before the tasks created earlier.
AudioTaskFirst(m, data) ==
    HostCall([m EXCEPT !.play_tasks = <<data>> \o @], "on_audio_received", <<data>>)

\* _handle_audio_data, through XiaozhiEngine._on_audio_data: the task that
\* will play the packet is created, then the host is told.
_handle_audio_data(m, data) ==
    HostCall([m EXCEPT !.play_tasks = Append(@, data)], "on_audio_received", <<data>>)

\* AudioPlayer.play_opus_data(opus_data), run by the event loop: the packet
\* is put on the queue when the decoder is there and playback has started.
play_opus_data(m, opus_data, playing) ==
    IF playing
    THEN [m EXCEPT !.audio_queue = Append(@, opus_data),
                   !.heard.queued = Append(@, opus_data)]
    ELSE m

\* _handle_json_message once json.loads has answered r.
DispatchJson(m, r) ==
    IF ~r.ok \/ r.v.t # "obj" THEN m
    ELSE IF DictGet(r.v, <<"t", "y", "p", "e">>) = Some(JStr(Encode(<<"h", "e", "l", "l", "o">>)))
    THEN _handle_hello_response(m, HelloData(r.v))
    ELSE IF DictGet(r.v, <<"t", "y", "p", "e">>) = Some(JStr(Encode(<<"t", "t", "s">>)))
    THEN _handle_tts_message(m, r.v)
    ELSE IF DictGet(r.v, <<"t", "y", "p", "e">>) = Some(JStr(Encode(<<"l", "l", "m">>)))
    THEN _handle_llm_message(m, r.v)
    ELSE IF DictGet(r.v, <<"t", "y", "p", "e">>) = Some(JStr(Encode(<<"m", "c", "p">>)))
    THEN _handle_mcp_message(m, r.v)
    ELSE m

_handle_json_message(m, data) ==
    DispatchJson(m, IF Utf8Valid(data) THEN JsonLoads(data) ELSE ParseFail)

_is_json_complete(data) == Utf8Valid(data) /\ JsonLoads(data).ok

\* _handle_binary_frame once the frame has decoded and joined the buffer.
AfterExtend(m) ==
    IF _is_json_complete(m.json_buffer)
    THEN [_handle_json_message(m, m.json_buffer) EXCEPT !.json_buffer = <<>>]
    ELSE m

\* A variant that delivers the audio and keeps the partial JSON.
KeepBufferOnAudio(m, data) ==
    IF Utf8Valid(data)
    THEN AfterExtend([m EXCEPT !.json_buffer = @ \o data])
    ELSE _handle_audio_data(m, data)

_handle_binary_frame(m, data) ==
    IF Utf8Valid(data)
    THEN AfterExtend([m EXCEPT !.json_buffer = @ \o data])
    ELSE _handle_audio_data([m EXCEPT !.json_buffer = <<>>], data)

\* ================================================================ actions
Gens == 1..MaxGen

\* ---- the host
Boot(force_new_device, g) ==
    /\ pc[0] = "idle"
    /\ Commit(boot([HostAct(Cur, "boot") EXCEPT !.obs.args = <<force_new_device>>],
                   0, force_new_device, g))

CompleteActivation(challenge, g) ==
    /\ pc[0] = "idle"
    /\ Commit(submit_activation([HostAct(Cur, "complete_activation") EXCEPT !.obs.args = <<challenge>>],
                                0, challenge, g))

Disconnect ==
    /\ pc[0] = "idle"
    /\ Commit(disconnect(HostAct(Cur, "disconnect"), 0))

Reset ==
    /\ pc[0] = "idle"
    /\ Commit(reset(HostAct(Cur, "reset")))

\* ---- the activation endpoint
OtaReply(json_data, g) ==
    /\ pc[0] = "ota"
    /\ Commit(ActivationFlowResume(Replied(HostAct(Cur, "boot"), json_data), 0, g, json_data))

OtaFail ==
    /\ pc[0] = "ota"
    /\ Commit(ActivationFlowFailed(HostAct(Cur, "boot"), 0))

PollReply(reply, g, limit) ==
    /\ pc[0] = "poll"
    /\ PollOutcome(reply) = "raise_timeout" => local[0].attempt <= limit
    /\ Commit(PollResume([HostAct(Cur, "complete_activation") EXCEPT !.obs.args = <<reply>>],
                         0, g, reply))

PollSleepDone(g) ==
    /\ pc[0] = "pollSleep"
    /\ Commit(PollSleepResume(HostAct(Cur, "complete_activation"), 0, g))

Ota2Reply(json_data, g) ==
    /\ pc[0] = "ota2"
    /\ Commit(Ota2Resume([HostAct(Cur, "complete_activation") EXCEPT !.obs.args = <<json_data>>],
                         0, g, json_data))

Ota2Fail(g) ==
    /\ pc[0] = "ota2"
    /\ Commit(Ota2Failed(HostAct(Cur, "complete_activation"), 0, g))

\* ---- the network
NextSocket == CHOOSE k \in Listeners : sockets[k] = "unborn" /\ \A j \in Listeners : j < k => sockets[j] # "unborn"

ConnectOpen(c) ==
    /\ pc[c] = "connecting"
    /\ \E k \in Listeners : sockets[k] = "unborn"
    /\ Commit(ConnectResumeOpened(ActOf(Cur, "ConnectOpen", c), c, NextSocket))

ConnectFail(c) ==
    /\ pc[c] = "connecting"
    /\ Commit(ConnectResumeFailed(ActOf(Cur, "ConnectFail", c), c))

HelloSleepDone(c) ==
    /\ pc[c] = "helloSleep"
    /\ Commit(_send_hello_message(Act(Cur, "HelloSleepDone"), c))

ServerHello(k, data) ==
    /\ pc[k] = "listen"
    /\ sockets[k] \in {"open", "closing"}
    /\ Commit(_handle_hello_response([ActOf(Cur, "ServerHello", k) EXCEPT !.obs.args = <<data>>],
                                     data))

\* The socket closes normally (the server closes it, or the close handshake
\* the client began completes): the iteration of _listen_messages ends.
SocketClosedOK(k) ==
    /\ pc[k] = "listen"
    /\ sockets[k] \in {"open", "closing"}
    /\ Commit(Finish([Act(Cur, "SocketClosedOK") EXCEPT !.sockets[k] = "closed"], k))

\* The connection is lost: the iteration of _listen_messages raises.
SocketLost(k) ==
    /\ pc[k] = "listen"
    /\ sockets[k] \in {"open", "closing"}
    /\ Commit(_handle_connection_error([Act(Cur, "SocketLost") EXCEPT !.sockets[k] = "closed"], k,
                                       "connection_closed"))

ReconnectWake(c) ==
    /\ pc[c] = "reconnectSleep"
    /\ Commit(ReconnectResume(ActOf(Cur, "ReconnectWake", c), c))

ReconnectClosed(c) ==
    /\ pc[c] = "reconnectClosing"
    /\ SocketClosed(Cur, local[c].sock)
    /\ Commit(connect(ActOf(Cur, "ReconnectClosed", c), c, last_url[1], last_headers[1]))

DisconnectClosed ==
    /\ pc[0] = "disconnectClosing"
    /\ SocketClosed(Cur, local[0].sock)
    /\ Commit(DisconnectTail(HostAct(Cur, "disconnect"), 0))

\* ---- the heartbeat task
HbLoop ==
    /\ hbPc = "loop"
    /\ Commit(IF websocket # 0 /\ ~SocketClosed(Cur, websocket)
              THEN [Act(Cur, "HbLoop") EXCEPT !.hbPc = "sleep"]
              ELSE [Act(Cur, "HbLoop") EXCEPT !.hbPc = "none"])

\* after asyncio.sleep(heartbeat_interval): websocket.ping()
HbWake ==
    /\ hbPc = "sleep"
    /\ (websocket # 0 /\ sockets[websocket] = "open") \/ heartbeat_timeout_count < MaxMissCount
    /\ Commit(IF websocket # 0 /\ sockets[websocket] = "open"
              THEN [Act(Cur, "HbWake") EXCEPT !.hbPc = "ping"]
              ELSE HeartbeatMiss(Act(Cur, "HbWake"), "ping_failed"))

HbPong ==
    /\ hbPc = "ping"
    /\ websocket # 0 /\ sockets[websocket] = "open"
    /\ Commit([Act(Cur, "HbPong") EXCEPT !.heartbeat_timeout_count = 0, !.hbPc = "loop"])

HbTimeout ==
    /\ hbPc = "ping"
    /\ heartbeat_timeout_count < MaxMissCount
    /\ Commit(HeartbeatMiss(Act(Cur, "HbTimeout"), "heartbeat_timeout"))

\* the CancelledError of the task's own cancel() arrives in the sleep of
\* _schedule_reconnect and ends the task
HbReconnectSleepEnds ==
    /\ hbPc = "reconnectSleep"
    /\ Commit([Act(Cur, "HbReconnectSleepEnds") EXCEPT !.hbPc = "none"])

\* The frame leaves the wire; the host has heard what the step called back.
Received(m) ==
    [m EXCEPT !.wire = Tail(@),
              !.heard = [frames |-> Append(@.frames, Head(m.wire)),
                         calls |-> @.calls \o m.obs.calls,
                         queued |-> @.queued]]

\* The listener of socket k receives the next binary frame of the wire.
BinaryFrame(k) ==
    /\ wire # <<>>
    /\ pc[k] = "listen"
    /\ sockets[k] = "open"
    /\ Commit(Received(_handle_binary_frame(
                  [Act(Cur, "BinaryFrame") EXCEPT !.obs.frame = Some(Head(wire))], Head(wire))))

\* The listener of socket k receives the next frame of the wire as a text
\* frame: _listen_messages hands message.encode('utf-8') to _handle_json_message.
TextFrame(k) ==
    /\ wire # <<>>
    /\ Utf8Valid(Head(wire))
    /\ pc[k] = "listen"
    /\ sockets[k] = "open"
    /\ Commit(Received(_handle_json_message(
                  [Act(Cur, "TextFrame") EXCEPT !.obs.frame = Some(Head(wire))], Head(wire))))

\* The event loop runs the oldest play_opus_data task.
PlayTaskRuns(playing) ==
    /\ play_tasks # <<>>
    /\ Commit(play_opus_data([Act(Cur, "PlayTaskRuns") EXCEPT !.play_tasks = Tail(@)],
                              Head(play_tasks), playing))

\* The engine as XiaozhiEngine.__init__ leaves it, before any call.
Fresh ==
    [store |-> EmptyStore,
     writable |-> TRUE,
     current_state |-> UNINITIALIZED,
     current_stage |-> IDLE,
     is_activating |-> FALSE,
     current_endpoint |-> FALSE,
     connection_state |-> "disconnected",
     session_id |-> None,
     downstream_sample_rate |-> DefaultSampleRate,
     websocket |-> 0,
     json_buffer |-> <<>>,
     reconnect_attempts |-> 0,
     heartbeat_task |-> FALSE,
     heartbeat_timeout_count |-> 0,
     last_url |-> None,
     last_headers |-> None,
     sample_rate |-> DefaultSampleRate,
     audio_queue |-> <<>>,
     play_tasks |-> <<>>,
     sockets |-> [k \in Listeners |-> "unborn"],
     sent |-> [tracked |-> FALSE,
               frames |-> [k \in Listeners |-> [first |-> None, hellos |-> 0]]],
     pc |-> [c \in Ctx |-> IF c \in Hosts THEN "idle" ELSE "unborn"],
     local |-> [c \in Ctx |-> LocalInit],
     hbPc |-> "none",
     obs |-> ObsInit,
     wire |-> <<>>,
     heard |-> [frames |-> <<>>, calls |-> <<>>, queued |-> <<>>]]

Install(m) ==
    /\ store = m.store
    /\ writable = m.writable
    /\ current_state = m.current_state
    /\ current_stage = m.current_stage
    /\ is_activating = m.is_activating
    /\ current_endpoint = m.current_endpoint
    /\ connection_state = m.connection_state
    /\ session_id = m.session_id
    /\ downstream_sample_rate = m.downstream_sample_rate
    /\ websocket = m.websocket
    /\ json_buffer = m.json_buffer
    /\ reconnect_attempts = m.reconnect_attempts
    /\ heartbeat_task = m.heartbeat_task
    /\ heartbeat_timeout_count = m.heartbeat_timeout_count
    /\ last_url = m.last_url
    /\ last_headers = m.last_headers
    /\ sample_rate = m.sample_rate
    /\ audio_queue = m.audio_queue
    /\ play_tasks = m.play_tasks
    /\ sockets = m.sockets
    /\ sent = m.sent
    /\ pc = m.pc
    /\ local = m.local
    /\ hbPc = m.hbPc
    /\ obs = m.obs
    /\ wire = m.wire
    /\ heard = m.heard

Init == Install(Fresh)

\* The host's calls of boot, disconnect and reset, and the answers to boot's
\* configuration request.
NextHost ==
    \/ \E f \in BOOLEAN, g \in Gens : Boot(f, g)
    \/ Reset
    \/ \E j \in OtaReplies, g \in Gens : OtaReply(j, g)
    \/ OtaFail

\* XiaozhiEngine.disconnect, which ends when the socket has closed.
NextDisconnect ==
    \/ Disconnect
    \/ DisconnectClosed

\* complete_activation, with at most limit answers that make it poll again.
NextActivation(limit) ==
    \/ \E ch \in Challenges, g \in Gens : CompleteActivation(ch, g)
    \/ \E r \in PollReplies, g \in Gens : PollReply(r, g, limit)
    \/ \E g \in Gens : PollSleepDone(g)
    \/ \E j \in OtaReplies, g \in Gens : Ota2Reply(j, g)
    \/ \E g \in Gens : Ota2Fail(g)

\* The steps of WebSocketClient.connect and the server's hello.
NextConnect ==
    \/ \E c \in Ctx : ConnectOpen(c)
    \/ \E c \in Ctx : ConnectFail(c)
    \/ \E c \in Ctx : HelloSleepDone(c)
    \/ \E k \in Listeners, h \in PlainHellos : ServerHello(k, h)

\* The end of a socket and the reconnection it schedules.
NextLifecycle ==
    \/ \E k \in Listeners : SocketClosedOK(k)
    \/ \E k \in Listeners : SocketLost(k)
    \/ \E c \in Listeners : ReconnectWake(c)
    \/ \E c \in Listeners : ReconnectClosed(c)

NextHeartbeat ==
    \/ HbLoop
    \/ HbWake
    \/ HbPong
    \/ HbTimeout
    \/ HbReconnectSleepEnds

Next ==
    \/ NextHost
    \/ NextDisconnect
    \/ NextActivation(MaxPending)
    \/ NextConnect
    \/ NextLifecycle
    \/ NextHeartbeat

Spec == Init /\ [][Next]_vars

\* The engine with an activated device only: no complete_activation.
NextWs == NextHost \/ NextDisconnect \/ NextConnect \/ NextLifecycle \/ NextHeartbeat

SpecWs == Init /\ [][NextWs]_vars

\* Activation with every answer to every poll, and the connection it opens.
NextAct == NextHost \/ NextActivation(max_attempts) \/ NextConnect

SpecAct == Init /\ [][NextAct]_vars

\* The engine a host boots, activates and boots anew, with the end of its
\* sockets: the host calls neither reset nor disconnect.
NextForce ==
    \/ \E f \in BOOLEAN, g \in Gens : Boot(f, g)
    \/ \E j \in OtaReplies, g \in Gens : OtaReply(j, g)
    \/ OtaFail
    \/ NextActivation(MaxPending)
    \/ NextConnect
    \/ NextLifecycle

SpecForce == Init /\ [][NextForce]_vars

\* ------------------------------------------------- frame demultiplexing
\* The message of scenario S5.
DocTts ==
    <<"{", "\"", "t", "y", "p", "e", "\"", ":", "\"", "t", "t", "s", "\"", ",",
      "\"", "s", "t", "a", "t", "e", "\"", ":",
      "\"", "s", "e", "n", "t", "e", "n", "c", "e", "_", "s", "t", "a", "r", "t", "\"", ",",
      "\"", "t", "e", "x", "t", "\"", ":", "\"", "U+4F60", "U+597D", "\"", "}">>

\* The ways to cut b into n frames, none empty.
RECURSIVE Splits(_, _)
Splits(b, n) ==
    IF n = 1 THEN {<<b>>}
    ELSE UNION {{<<SubSeq(b, 1, i)>> \o w : w \in Splits(SubSeq(b, i + 1, Len(b)), n - 1)} :
                i \in 1..(Len(b) - (n - 1))}

\* Frames a wire may be made of: two Opus-like packets that are not UTF-8,
\* some text that is no JSON, the S5 message whole and in two halves.
FramePool ==
    {<<248, 255, 254>>, <<128, 123>>, Encode(<<"a", "b">>), Encode(DocTts),
     SubSeq(Encode(DocTts), 1, 14), SubSeq(Encode(DocTts), 15, Len(Encode(DocTts)))}

Wires ==
    UNION {Splits(Encode(DocTts), n) : n \in 1..MaxFrames}
    \cup UNION {[1..n -> FramePool] : n \in 1..MaxFrames}

\* A session as boot leaves it on an activated device once the server has
\* said hello: socket 1 open, its listener waiting for frames.
SessionOpen ==
    LET b1 == boot(Fresh, 0, FALSE, 1)
        b2 == ActivationFlowResume(b1, 0, 1, [websocket |-> Some(WsDict(UrlSlash)),
                                              activation |-> None])
        b3 == ConnectResumeOpened(b2, 0, 1)
        b4 == _send_hello_message(b3, 0)
        b5 == _handle_hello_response([b4 EXCEPT !.obs = ObsInit],
                                     [session_id |-> Some(<<"s">>), sample_rate |-> None])
    IN  ActOf(b5, "ServerHello", 1)

InitFrames == \E w \in Wires : Install([SessionOpen EXCEPT !.wire = w])

NextFrames == \E k \in Listeners : BinaryFrame(k)

SpecFrames == InitFrames /\ [][NextFrames]_vars

\* ---------------------------------------------------- the connect gate
\* WebSocketClient.connect called directly, in every DeviceState the
\* DeviceStateManager can be put in.
ClientConnect(url) ==
    /\ pc[0] = "idle"
    /\ Commit(connect(ActOf(HostAct(Cur, "connect"), "connect", 0), 0, url,
                      _build_websocket_headers(Token, _generate_virtual_mac(1), NewUuid(1))))

InitGate == \E s \in DeviceState : Install([Fresh EXCEPT !.current_state = s])

NextGate ==
    \/ \E u \in Urls : ClientConnect(u)
    \/ NextConnect
    \/ NextLifecycle
    \/ NextHeartbeat

SpecGate == InitGate /\ [][NextGate]_vars

\* ------------------------------------------------------------ the sends
\* The host's send operations, one await each (websocket.send), called in
\* any DeviceState and at any moment of the connection's life.
Texts == {<<"h", "i">>}
Modes == {<<"a", "u", "t", "o">>}

SendText(text) ==
    /\ current_state \in DeviceState
    /\ Commit(send_text_message(HostAct(Cur, "send_text_message"), 0, text))

StartListening(mode) ==
    /\ current_state \in DeviceState
    /\ Commit(start_listening(HostAct(Cur, "start_listening"), 0, mode))

StopListening ==
    /\ current_state \in DeviceState
    /\ Commit(stop_listening(HostAct(Cur, "stop_listening"), 0))

SendBinary ==
    /\ current_state \in DeviceState
    /\ Commit(send_message(HostAct(Cur, "send_message"), 0, BytesMessage))

NextSend ==
    \/ \E t \in Texts : SendText(t)
    \/ \E mode \in Modes : StartListening(mode)
    \/ StopListening
    \/ SendBinary

NextSendGate == NextGate \/ NextSend

SpecSend == InitGate /\ [][NextSendGate]_vars

\* The same, with the frames written on each socket kept.
InitHello ==
    \E s \in DeviceState :
        Install([Fresh EXCEPT !.current_state = s, !.sent.tracked = TRUE])

SpecHello == InitHello /\ [][NextSendGate]_vars

\* ------------------------------------------------------------------ claims
\* The calls of WebSocketClient.connect of the latest step that went on to
\* open a connection.
StartedConnects == {i \in 1..Len(obs.connects) : obs.connects[i].started}
ActivationStored ==
    /\ store["activated"] = Some("true")
    /\ Truthy(store["websocket_url"])
    /\ Truthy(store["websocket_token"])

\* C1: whatever the host calls and whatever the network does, the engine
\* starts opening a WebSocket connection only while the store holds
\* activated = "true" and both websocket_url and websocket_token.
C1_ConnectOnlyWhenActivated == StartedConnects # {} => ActivationStored

RECURSIVE Concat(_)
Concat(frames) == IF frames = <<>> THEN <<>> ELSE Head(frames) \o Concat(Tail(frames))

OnTtsS5 ==
    [cb |-> "on_tts",
     args |-> <<Some(JStr(Encode(<<"s", "e", "n", "t", "e", "n", "c", "e", "_", "s", "t", "a",
                                   "r", "t">>))),
                Some(JStr(Encode(<<"U+4F60", "U+597D">>)))>>]

\* C2: once the binary frames received on a connection add up to the S5
\* message, however it was cut into frames, the host has been called back
\* exactly once, with on_tts("sentence_start", text), and never with audio.
C2_SplitJsonIsOneEvent ==
    (heard.frames # <<>> /\ Concat(heard.frames) = Encode(DocTts)) => heard.calls = <<OnTtsS5>>

\* C3: a binary frame that is not valid UTF-8 calls the host back exactly
\* once, with on_audio_received carrying exactly the bytes of the frame, and
\* json_buffer is empty afterwards.
C3_NonUtf8FrameIsAudio ==
    (obs.act = "BinaryFrame" /\ ~Utf8Valid(obs.frame[1]))
        => /\ obs.calls = <<[cb |-> "on_audio_received", args |-> <<obs.frame[1]>>]>>
           /\ json_buffer = <<>>

\* An Opus-like frame arrives after the first part of a JSON message, which
\* was waiting in json_buffer, and is delivered as audio.
C3_Witness ==
    /\ obs.act = "BinaryFrame"
    /\ Len(heard.frames) = 2
    /\ heard.frames[1] = SubSeq(Encode(DocTts), 1, 14)
    /\ heard.frames[2] = <<248, 255, 254>>
    /\ heard.calls = <<[cb |-> "on_audio_received", args |-> <<heard.frames[2]>>]>>
    /\ json_buffer = <<>>

\* C4: when a reconnection attempt made after a hello fails, the next one
\* is scheduled with the delay of the ladder 1, 2, 4, 8, 15 that
\* reconnect_attempts indexes, and after the fifth failure none is.
C4_ReconnectLadder ==
    \A c \in Listeners :
        (obs.act = "ConnectFail" /\ obs.ctx = Some(c) /\ session_id # None)
            => \/ /\ pc[c] = "reconnectSleep"
                  /\ reconnect_attempts <= max_reconnect_attempts
                  /\ local[c].delay = reconnect_intervals[reconnect_attempts]
               \/ /\ pc[c] = "done"
                  /\ reconnect_attempts >= max_reconnect_attempts

\* C5: the reconnection the heartbeat schedules on its timeout is carried
\* out: when its one-second sleep ends, with the host idle and the socket
\* of the session as it was, the task goes on to connect to the last URL,
\* closing the old socket first if it is still open.
C5_HeartbeatReconnects ==
    (/\ obs.act = "HbReconnectSleepEnds"
     /\ pc[0] = "idle"
     /\ websocket # 0 /\ sockets[websocket] = "open"
     /\ current_state = ACTIVATED)
        => \/ hbPc = "reconnectClosing"
           \/ \E i \in StartedConnects : obs.connects[i].url = last_url[1]

\* C6: heartbeat_timeout_count is 0 when the server's answer to the hello
\* sent on a new connection has been handled, so that the pings missed
\* before do not count in the new session.
C6_CountStartsAtZero ==
    [][(/\ obs'.act = "ServerHello"
        /\ obs'.ctx = Some(websocket)
        /\ connection_state = "handshaking")
          => heartbeat_timeout_count' = 0]_vars

Polling == {"poll", "pollSleep"}
PollRank == 2 * (max_attempts - local[0].attempt) + (IF pc[0] = "poll" THEN 1 ELSE 0)

\* C7: a call of submit_activation sends at most 60 requests, every request
\* but the first follows a sleep of 5 seconds that followed the request
\* before it, and the loop ends: each of its steps lowers a rank that is
\* never negative.
C7_PollBound ==
    [][/\ obs'.polls <= max_attempts
       /\ pc'[0] = "poll" => local'[0].sleeps = local'[0].polls - 1
       /\ pc'[0] = "pollSleep" => local'[0].delay = 5 /\ local'[0].sleeps = local'[0].polls - 1
       /\ pc'[0] \in Polling => PollRank' >= 0
       /\ (pc[0] \in Polling /\ pc'[0] \in Polling /\ pc'[0] # pc[0]) => PollRank' < PollRank]_vars

\* The sixtieth request has been sent, after fifty-nine sleeps.
C7_Witness == pc[0] = "poll" /\ local[0].polls = 60 /\ local[0].sleeps = 59 /\ obs.polls = 60

EndsWithSlash(url) == url # <<>> /\ url[Len(url)] = "/"

\* C9: connect called with a URL that does not end with "/" starts no
\* connection, and when boot made the call the host's on_error is called
\* once, with the error invalid_url.
C9_UrlRejected ==
    \A i \in 1..Len(obs.connects) :
        ~EndsWithSlash(obs.connects[i].url)
            => /\ ~obs.connects[i].started
               /\ \A c \in Ctx : pc[c] = "connecting" => EndsWithSlash(local[c].url)
               /\ obs.errors # <<>>
               /\ obs.act = "boot" => obs.errors = <<"invalid_url">>

\* Scenario S4: boot on a device whose store holds activated = "true" and a
\* websocket_url without the final "/".
C9_Witness ==
    /\ obs.act = "boot"
    /\ obs.pre = ACTIVATED
    /\ store["activated"] = Some("true")
    /\ store["websocket_url"] = Some(UrlNoSlash)
    /\ Len(obs.connects) = 1
    /\ obs.connects[1].url = UrlNoSlash
    /\ obs.errors = <<"invalid_url">>
    /\ pc[0] = "idle"
    /\ \A k \in Listeners : sockets[k] = "unborn"

SendActs == {"send_text_message", "start_listening", "stop_listening", "send_message"}
ReadyStates == {WS_READY, STREAMING}

\* C11: a send operation of the host writes a listen message or a binary
\* frame to the socket only while DeviceState is wsReady or streaming, and
\* a send called in another state writes nothing and leaves DeviceState,
\* the session and the sockets as they were.
C11_SendOnlyWhenReady ==
    [][obs'.act \in SendActs =>
          /\ \A i \in 1..Len(obs'.writes) : obs'.writes[i].state \in ReadyStates
          /\ current_state \notin ReadyStates =>
                /\ obs'.writes = <<>>
                /\ current_state' = current_state
                /\ session_id' = session_id
                /\ websocket' = websocket
                /\ sockets' = sockets]_vars

\* A binary send refused in activated although the client's socket is open.
C11_Witness ==
    /\ obs.act = "send_message"
    /\ obs.pre = ACTIVATED
    /\ current_state = ACTIVATED
    /\ websocket # 0 /\ sockets[websocket] = "open"
    /\ obs.writes = <<>>

\* C12: a send operation called in a state other than wsReady and streaming
\* reports its refusal to the host through on_error.
C12_RefusalSurfaced ==
    (obs.act \in SendActs /\ obs.pre \notin ReadyStates) => obs.errors # <<>>

\* The bodies of request_config that hold an activation object.
HasActivation(json_data) == json_data.activation # None

\* C13: when the body request_config returned holds an activation object,
\* with or without a websocket object, the step that handles it sets the
\* stage to needCode, hands the code and the challenge to the host, leaves
\* the store as it was, not marked activated, opens no connection, and
\* DeviceState is pendingActivation before and after.
C13_BranchAPreferred ==
    [][(obs'.reply # None /\ HasActivation(obs'.reply[1])) =>
          /\ current_stage' = NEED_CODE
          /\ obs'.calls = <<[cb |-> "on_activation_code",
                             args |-> <<obs'.reply[1].activation[1].code[1],
                                        obs'.reply[1].activation[1].challenge[1]>>]>>
          /\ store' = store
          /\ store'["activated"] # Some("true")
          /\ obs'.connects = <<>>
          /\ current_state = PENDING_ACTIVATION
          /\ current_state' = PENDING_ACTIVATION]_vars

\* The bodies of request_config that hold websocket{url, token} only.
OnlyWebsocket(json_data) ==
    /\ json_data.activation = None
    /\ json_data.websocket # None
    /\ json_data.websocket[1].url # None
    /\ json_data.websocket[1].token # None

\* C14: when the body request_config returned holds websocket{url, token}
\* and no activation object, ensure_activated returns the stage activated,
\* and at its return the store holds that url and that token and
\* activated = "true", and DeviceState is activated.
C14_BranchBPersists ==
    (obs.reply # None /\ OnlyWebsocket(obs.reply[1])) =>
        /\ obs.ensured # None
        /\ obs.ensured[1].stage = STAGE_ACTIVATED
        /\ obs.ensured[1].state = ACTIVATED
        /\ obs.ensured[1].store["websocket_url"] = obs.reply[1].websocket[1].url
        /\ obs.ensured[1].store["websocket_token"] = obs.reply[1].websocket[1].token
        /\ obs.ensured[1].store["activated"] = Some("true")

\* Branch B was taken on a device that was pending, and the engine went on
\* to connect.
C14_Witness ==
    /\ obs.reply # None /\ OnlyWebsocket(obs.reply[1])
    /\ obs.pre = PENDING_ACTIVATION
    /\ obs.ensured # None /\ obs.ensured[1].state = ACTIVATED
    /\ store["activated"] = Some("true")
    /\ current_state = WS_CONNECTING

\* ------------------------------------------------ boot of a fresh device
\* boot() on a fresh device whose request_config is answered with a
\* websocket object only, the url ending in "/"; the server accepts the
\* connection, answers the hello, and the connection is not lost. The host
\* may send and the heartbeat runs.
DirectReplies == {j \in OtaReplies : OnlyWebsocket(j) /\ EndsWithSlash(j.websocket[1].url[1])}

BootFresh(g) ==
    /\ current_state = UNINITIALIZED
    /\ Boot(FALSE, g)

NextLive ==
    \/ \E g \in Gens : BootFresh(g)
    \/ \E j \in DirectReplies, g \in Gens : OtaReply(j, g)
    \/ ConnectOpen(0)
    \/ HelloSleepDone(0)
    \/ \E k \in Listeners, h \in Hellos : ServerHello(k, h)
    \/ NextHeartbeat
    \/ NextSend

\* The answers of the server arrive and the timers of the event loop fire.
FairLive ==
    /\ WF_vars(\E j \in DirectReplies, g \in Gens : OtaReply(j, g))
    /\ WF_vars(ConnectOpen(0))
    /\ WF_vars(HelloSleepDone(0))
    /\ WF_vars(\E k \in Listeners, h \in Hellos : ServerHello(k, h))

SpecLive == Init /\ [][NextLive]_vars /\ FairLive

\* Sessions one after the other, each hello carrying a sample rate or none.
NextRate ==
    \/ \E g \in Gens : Boot(FALSE, g)
    \/ \E j \in DirectReplies, g \in Gens : OtaReply(j, g)
    \/ NextDisconnect
    \/ \E c \in Ctx : ConnectOpen(c)
    \/ \E c \in Ctx : HelloSleepDone(c)
    \/ \E k \in Listeners, h \in Hellos : ServerHello(k, h)
    \/ NextLifecycle

SpecRate == Init /\ [][NextRate]_vars

\* Frames arriving on a session, and the ways a later connection comes to
\* be: the socket is lost and the reconnect timer connects again, or the
\* host disconnects and boots again.
NextCarry ==
    \/ \E k \in Listeners : BinaryFrame(k)
    \/ \E g \in Gens : Boot(FALSE, g)
    \/ NextDisconnect
    \/ \E c \in Ctx : ConnectOpen(c)
    \/ \E c \in Ctx : HelloSleepDone(c)
    \/ \E k \in Listeners, h \in PlainHellos : ServerHello(k, h)
    \/ NextLifecycle

\* The S5 message whole and in its two halves, two frames on the wire.
CarryWires ==
    [1..2 -> {Encode(DocTts), SubSeq(Encode(DocTts), 1, 14),
              SubSeq(Encode(DocTts), 15, Len(Encode(DocTts)))}]

InitCarry == \E w \in CarryWires : Install([SessionOpen EXCEPT !.wire = w])

SpecCarry == InitCarry /\ [][NextCarry]_vars

ReadyCalled == \E i \in 1..Len(obs.calls) : obs.calls[i].cb = "on_websocket_ready"

\* C15: after boot on a fresh device, when request_config returns a
\* websocket object only whose url ends in "/", the server accepts the
\* connection and answers the hello, the engine comes to DeviceState
\* wsReady with on_websocket_ready invoked, the store holding
\* activated = "true" and the url returned.
C15_BootReachesReady ==
    (obs.act = "boot" /\ pc[0] = "ota")
        ~> (/\ current_state = WS_READY
            /\ ReadyCalled
            /\ store["activated"] = Some("true")
            /\ store["websocket_url"] = Some(UrlSlash))

\* The hello has been handled on the connection boot opened.
C15_Witness ==
    /\ current_state = WS_READY
    /\ ReadyCalled
    /\ websocket # 0 /\ sockets[websocket] = "open"
    /\ store["activated"] = Some("true")
    /\ store["websocket_url"] = Some(UrlSlash)

\* C16: the device is marked activated only after the configuration the
\* second request_config returned has been persisted: while that request
\* is awaited the store does not hold activated = "true", and when
\* complete_activation has marked the device the store holds a url and a
\* token.
C16_MarkedAfterConfig ==
    /\ pc[0] = "ota2" => store["activated"] # Some("true")
    /\ (obs.act = "complete_activation" /\ store["activated"] = Some("true"))
          => Truthy(store["websocket_url"]) /\ Truthy(store["websocket_token"])

\* ------------------------------------------------ order of the callbacks
\* A wire of whole messages: two Opus-like packets, the S5 message and an
\* emotion message, in any order, each JSON message sent as a text frame
\* or as a binary frame.
DocLlm ==
    <<"{", "\"", "t", "y", "p", "e", "\"", ":", "\"", "l", "l", "m", "\"", ",",
      "\"", "e", "m", "o", "t", "i", "o", "n", "\"", ":", "\"", "h", "a", "p", "p", "y", "\"", "}">>

OrderPool == {<<248, 255, 254>>, <<128, 123>>, Encode(DocTts), Encode(DocLlm)}

OrderWires == UNION {[1..n -> OrderPool] : n \in 1..MaxOrderFrames}

InitOrder == \E w \in OrderWires : Install([SessionOpen EXCEPT !.wire = w])

NextOrder ==
    \/ \E k \in Listeners : BinaryFrame(k)
    \/ \E k \in Listeners : TextFrame(k)
    \/ \E playing \in BOOLEAN : PlayTaskRuns(playing)

SpecOrder == InitOrder /\ [][NextOrder]_vars

\* One turn of the playback worker: audio_queue.get() returns the oldest
\* packet, which is decoded and played (or dropped when decoding fails).
_audio_playback_loop(m) == [m EXCEPT !.audio_queue = Tail(@)]

PlaybackGet ==
    /\ audio_queue # <<>>
    /\ Commit(_audio_playback_loop(Act(Cur, "PlaybackGet")))

\* Frames arriving while the playback worker runs at any speed, or not at
\* all.
NextQueue == NextOrder \/ PlaybackGet

SpecQueue == InitOrder /\ [][NextQueue]_vars

IsAudioFrame(f) == ~Utf8Valid(f)
IsJsonFrame(f) == Utf8Valid(f)
IsAudioCall(call) == call.cb = "on_audio_received"
IsJsonCall(call) == call.cb \in {"on_tts", "on_emotion"}
OnEmotionHappy == [cb |-> "on_emotion", args |-> <<Some(JStr(Encode(<<"h", "a", "p", "p", "y">>)))>>]
ExpectedCall(f) ==
    IF IsAudioFrame(f) THEN [cb |-> "on_audio_received", args |-> <<f>>]
    ELSE IF f = Encode(DocTts) THEN OnTtsS5 ELSE OnEmotionHappy
Expected(frames) == [i \in 1..Len(frames) |-> ExpectedCall(frames[i])]

\* s is t with some elements left out, the others in the order of t.
RECURSIVE IsSubSeq(_, _)
IsSubSeq(s, t) ==
    IF s = <<>> THEN TRUE
    ELSE IF t = <<>> THEN FALSE
    ELSE IF Head(s) = Head(t) THEN IsSubSeq(Tail(s), Tail(t))
    ELSE IsSubSeq(s, Tail(t))

\* C17: the on_tts and on_emotion callbacks made so far are those of the
\* JSON messages received, in the order of arrival; the on_audio_received
\* callbacks are those of the audio frames received, in the order of
\* arrival; and the packets put on the audio queue are audio frames
\* received, in the order of arrival.
C17_OrderPreserved ==
    /\ SelectSeq(heard.calls, IsJsonCall) = Expected(SelectSeq(heard.frames, IsJsonFrame))
    /\ SelectSeq(heard.calls, IsAudioCall) = Expected(SelectSeq(heard.frames, IsAudioFrame))
    /\ IsSubSeq(heard.queued, SelectSeq(heard.frames, IsAudioFrame))

\* Audio, the S5 message, other audio and the emotion message were received
\* in this order, and both packets are on the queue.
C17_Witness ==
    /\ heard.frames = <<<<248, 255, 254>>, Encode(DocTts), <<128, 123>>, Encode(DocLlm)>>
    /\ heard.queued = <<<<248, 255, 254>>, <<128, 123>>>>
    /\ Len(heard.calls) = 4

\* C18: once disconnect has returned, and until the host calls boot,
\* complete_activation or connect again, no step of the client opens a
\* connection and no ping is sent.
C18_DisconnectCancels ==
    [][(connection_state = "disconnected"
        /\ obs'.act \notin {"boot", "complete_activation", "connect"})
          => /\ \A i \in 1..Len(obs'.connects) : ~obs'.connects[i].started
             /\ ~(obs'.act = "HbWake" /\ hbPc' = "ping")]_vars

\* ------------------------------------------------- IdentityManager.current
\* IdentityManager.current called on any store file: each identity field is
\* absent, empty or one of two strings, and activated is absent, "true" or
\* "false". A restart of the process keeps the file and nothing else.
StoredStrings == {None, Some(<<>>), Some(<<"a">>), Some(<<"b">>)}
IdentityKeys == {"device_id", "client_id", "serial", "hmac_key"}
ActivatedFlags == {None, Some("true"), Some("false")}
Stores ==
    {[k \in PersistKey |-> IF k \in IdentityKeys THEN id[k]
                           ELSE IF k = "activated" THEN flag ELSE None] :
        id \in [IdentityKeys -> StoredStrings], flag \in ActivatedFlags}

CurrentCalled(m, force_new, cur) ==
    [cur.m EXCEPT !.obs.args = <<force_new>>, !.obs.identity = Some(cur.identity)]

CurrentCall(force_new, g) ==
    /\ pc[0] = "idle"
    /\ Commit(CurrentCalled(Cur, force_new, IdentityCurrent(Act(Cur, "current"), force_new, g)))

Restart ==
    /\ pc[0] = "idle"
    /\ Commit([Fresh EXCEPT !.store = store, !.obs.act = "Restart",
                             !.obs.identity = obs.identity])

\* The process stops inside current, after the n-th write of the call: the
\* file keeps what was written, the memory is lost.
CurrentStopped(force_new, g) ==
    /\ pc[0] = "idle"
    /\ \E n \in 1..Len(IdentityCurrent(Act(Cur, "current"), force_new, g).m.obs.stores) :
          LET written == IdentityCurrent(Act(Cur, "current"), force_new, g).m.obs.stores
          IN  Commit([Fresh EXCEPT !.store = written[n], !.obs.act = "current_stopped",
                                   !.obs.stores = SubSeq(written, 1, n)])

InitIdentity == \E st \in Stores : Install([Fresh EXCEPT !.store = st])

NextIdentity ==
    \/ \E f \in BOOLEAN, g \in Gens : CurrentCall(f, g)
    \/ \E f \in BOOLEAN, g \in Gens : CurrentStopped(f, g)
    \/ Restart

SpecIdentity == InitIdentity /\ [][NextIdentity]_vars

\* Boot and complete_activation on any store file, a key that is no
\* hexadecimal string included, and the connection they open.
NextSubmit == NextHost \/ NextActivation(MaxPending) \/ NextConnect

SpecSubmit == InitIdentity /\ [][NextSubmit]_vars

\* -------------------------------------------------- a store that fails
\* The store file stops being writable (disk full, permissions) and is
\* writable again, while the host boots.
StoreFails ==
    /\ writable
    /\ Commit([Act(Cur, "StoreFails") EXCEPT !.writable = FALSE])

StoreRecovers ==
    /\ ~writable
    /\ Commit([Act(Cur, "StoreRecovers") EXCEPT !.writable = TRUE])

NextDisk ==
    \/ StoreFails
    \/ StoreRecovers
    \/ NextHost
    \/ NextConnect

SpecDisk == Init /\ [][NextDisk]_vars

HoldsIdentity == \A k \in IdentityKeys : Truthy(store[k])

\* C19: a call current(force_new=False) on a store that holds the four
\* identity fields returns exactly the stored device_id, client_id, serial
\* and hmac_key and leaves the store as it was; and it returns the identity
\* the call before it returned, a restart in between or not.
C19_IdentityStable ==
    [][(obs'.act = "current" /\ obs'.args = <<FALSE>>) =>
          /\ HoldsIdentity =>
                /\ obs'.identity[1].device_id = store["device_id"][1]
                /\ obs'.identity[1].client_id = store["client_id"][1]
                /\ obs'.identity[1].serial = store["serial"][1]
                /\ obs'.identity[1].hmac_key_hex = store["hmac_key"][1]
                /\ store' = store
          /\ obs.identity # None =>
                /\ obs'.identity[1].device_id = obs.identity[1].device_id
                /\ obs'.identity[1].client_id = obs.identity[1].client_id
                /\ obs'.identity[1].serial = obs.identity[1].serial
                /\ obs'.identity[1].hmac_key_hex = obs.identity[1].hmac_key_hex]_vars

\* current(force_new=False) returned the identity a complete store holds.
C19_Witness ==
    /\ obs.act = "current" /\ obs.args = <<FALSE>>
    /\ store["device_id"] = Some(<<"a">>) /\ store["client_id"] = Some(<<"b">>)
    /\ store["serial"] = Some(<<"a">>) /\ store["hmac_key"] = Some(<<"b">>)
    /\ obs.identity # None /\ obs.identity[1].device_id = <<"a">>

\* A store file is sound when its flag says activated only over a complete
\* identity.
StoreSound(st) == st["activated"] = Some("true") => \A k \in IdentityKeys : Truthy(st[k])

GenValue(k, g) ==
    CASE k = "device_id" -> _generate_virtual_mac(g)
      [] k = "client_id" -> NewUuid(g)
      [] k = "serial" -> _generate_serial(_generate_virtual_mac(g))
      [] k = "hmac_key" -> _random_hex(g)

FieldsOf(st, g) == {k \in IdentityKeys : st[k] = Some(GenValue(k, g))}

WholeOrNone(st, g) ==
    \/ FieldsOf(st, g) = {}
    \/ FieldsOf(st, g) = IdentityKeys /\ st["activated"] = Some("false")

\* C21: while current generates an identity (one whose values the store did
\* not hold before), the store file holds after each of its writes, and
\* wherever the process stops, either the whole new tuple (device_id,
\* client_id, serial, hmac_key, activated = "false") or none of its fields.
C21_IdentityAtomic ==
    [][\A g \in Gens :
          (obs'.act \in {"current", "current_stopped"} /\ FieldsOf(store, g) = {}) =>
              /\ WholeOrNone(store', g)
              /\ \A i \in 1..Len(obs'.stores) : WholeOrNone(obs'.stores[i], g)]_vars

\* C22: boot(force_new_device=True) leaves a newly generated identity whose
\* activated is not "true", neither websocket_url nor websocket_token and
\* DeviceState pendingActivation, and opens no connection; and as long as no
\* activation has succeeded since (the store does not say activated) no
\* connection is opened.
C22_ForceNewDiscards ==
    [][/\ (obs'.act = "boot" /\ obs'.args = <<TRUE>>) =>
             /\ store'["activated"] # Some("true")
             /\ store'["websocket_url"] = None /\ store'["websocket_token"] = None
             /\ \E g \in Gens : FieldsOf(store', g) = IdentityKeys
             /\ current_state' = PENDING_ACTIVATION
       /\ store'["activated"] # Some("true") =>
             \A i \in 1..Len(obs'.connects) : ~obs'.connects[i].started]_vars

\* C23: DeviceState becomes wsReady only in a step that receives a server
\* hello and only from wsConnecting; and every hello received leaves the
\* heartbeat started, reconnect_attempts 0 and session_id the hello's.
C23_ReadyOnlyOnHello ==
    [][/\ (current_state # WS_READY /\ current_state' = WS_READY) =>
             (obs'.act = "ServerHello" /\ current_state = WS_CONNECTING)
       /\ obs'.act = "ServerHello" =>
             /\ current_state' = WS_READY
             /\ heartbeat_task' /\ hbPc' # "none"
             /\ reconnect_attempts' = 0
             /\ session_id' = obs'.args[1].session_id]_vars

\* C24: a transport error on the read loop of a socket calls on_error only
\* when no reconnect attempt remains (reconnect_attempts has reached
\* max_reconnect_attempts), and then it does call it.
C24_ErrorOnlyWhenExhausted ==
    [][obs'.act = "SocketLost" =>
          (obs'.errors # <<>> <=> reconnect_attempts >= max_reconnect_attempts)]_vars

\* C25: an answer to poll_activate whose status is neither 200 nor 202,
\* whatever its body, and a transport failure of the request, end the
\* polling: the call neither sleeps nor polls again.
C25_OtherStatusEndsPolling ==
    [][(pc[0] = "poll" /\ obs'.act = "complete_activation" /\ obs'.args # <<>>
        /\ (obs'.args[1].failed \/ obs'.args[1].status \notin {200, 202})) =>
          pc'[0] \notin {"poll", "pollSleep"}]_vars

NoSessionConfig(st) == ~Truthy(st["websocket_url"]) \/ ~Truthy(st["websocket_token"])

C27_IncompleteFailsFast ==
    [][(pc[0] = "idle" /\ obs'.act = "complete_activation" /\ obs'.args # <<>>
        /\ \/ obs'.args[1] = <<>>
           \/ HoldsIdentity /\ hmac_sha256_hex(store["hmac_key"][1], obs'.args[1]) = <<>>) =>
          /\ obs'.polls = 0 /\ obs'.sleeps = 0
          /\ pc'[0] = "idle"
          /\ current_stage' = IDLE /\ ~is_activating'
          /\ obs'.ret = "False"]_vars

\* complete_activation failed so on a stored key that is no hexadecimal string.
C27_Witness ==
    /\ obs.act = "complete_activation" /\ obs.args = <<<<"C">>>> /\ obs.ret = "False"
    /\ obs.polls = 0 /\ pc[0] = "idle"
    /\ HoldsIdentity /\ store["hmac_key"] = Some(<<"a">>)

\* The errors of a connect attempt refused for the configuration (url without
\* trailing slash, no stored session config) or for the state.
AttemptErrors ==
    {"invalid_url", "missing_websocket_config", "websocket_not_allowed", "device_not_activated"}

\* C28: a connect attempt that fails with a configuration or state error
\* reports it and makes no DeviceState transition: the step never calls
\* transition(wsConnecting), and a reconnect attempt so refused calls
\* transition not at all.
C28_FailedAttemptKeepsState ==
    (\E i \in 1..Len(obs.errors) : obs.errors[i] \in AttemptErrors) =>
        /\ \A i \in 1..Len(obs.transitions) : obs.transitions[i] # WS_CONNECTING
        /\ obs.ctx # None => obs.transitions = <<>>

\* C29: when boot has to generate an identity (forced, or none complete is
\* stored) and the writes of its fields fail, the failure is reported as an
\* error and DeviceState is not advanced to pendingActivation or activated.
C29_WriteFailureSurfaced ==
    [][(pc[0] = "idle" /\ obs'.act = "boot" /\ ~writable
        /\ (obs'.args = <<TRUE>> \/ ~HoldsIdentity)) =>
          /\ obs'.errors # <<>>
          /\ current_state' \in {PENDING_ACTIVATION, ACTIVATED} => current_state' = current_state]_vars

\* C30: on every connection the first frame the client writes is its hello,
\* and it writes no second hello; once the hello step of connect has run on
\* a connection that is still open, the hello has been written.
C30_HelloFirst ==
    \A k \in Listeners :
        /\ sent.frames[k].first # None => sent.frames[k].first = Some("hello")
        /\ sent.frames[k].hellos <= 1
        /\ (obs.act = "HelloSleepDone" /\ websocket = k /\ sockets[k] = "open") =>
               sent.frames[k].hellos = 1

\* C31: the first server hello of a session (the client's hello has been
\* sent on the current socket) that carries no audio_params.sample_rate
\* leaves downstream_sample_rate 16000 and reports 16000 to
\* on_websocket_ready; one that carries a rate leaves downstream_sample_rate
\* and the player's sample_rate equal to it.
C31_DefaultRatePerSession ==
    [][(obs'.act = "ServerHello" /\ obs'.ctx = Some(websocket)
        /\ connection_state = "handshaking") =>
          IF obs'.args[1].sample_rate = None
          THEN /\ downstream_sample_rate' = DefaultSampleRate
               /\ obs'.calls[Len(obs'.calls)].args[2] = DefaultSampleRate
          ELSE /\ downstream_sample_rate' = obs'.args[1].sample_rate[1]
               /\ sample_rate' = obs'.args[1].sample_rate[1]]_vars

\* C32: json_buffer is per connection: when a new socket opens after the
\* previous one has gone (a reconnect, or disconnect and a new connect),
\* json_buffer is empty.
C32_BufferPerConnection ==
    [][(obs'.act = "ConnectOpen" /\ \A k \in Listeners : sockets[k] # "open") =>
          json_buffer' = <<>>]_vars

\* C33: the heartbeat task sends a ping (its sleep ends and websocket.ping()
\* is called on an open socket) only while DeviceState is wsReady or
\* streaming.
C33_PingOnlyWhenReady ==
    [][(obs'.act = "HbWake" /\ hbPc' = "ping") =>
          current_state \in {WS_READY, STREAMING}]_vars

\* C34: reconnect_attempts goes back to 0 only when a server hello is
\* handled or in disconnect; a socket that opens in a reconnect does not
\* clear it.
C34_AttemptsClearedByHello ==
    [][(reconnect_attempts > 0 /\ reconnect_attempts' = 0) =>
          obs'.act \in {"ServerHello", "disconnect", "DisconnectClosed"}]_vars

\* C35: boot(force_new_device=False) on a store that holds a whole identity,
\* activated = "true" and the session config makes no request_config call,
\* moves DeviceState to activated first and calls connect with the stored
\* url; when connect accepts the url its headers carry the stored token.
C35_ActivatedBootConnects ==
    [][(pc[0] = "idle" /\ obs'.act = "boot" /\ obs'.args = <<FALSE>>
        /\ HoldsIdentity /\ ActivationStored) =>
          /\ pc'[0] \notin {"ota", "ota2", "poll", "pollSleep"}
          /\ obs'.polls = 0
          /\ obs'.transitions # <<>> /\ obs'.transitions[1] = ACTIVATED
          /\ Len(obs'.connects) = 1
          /\ obs'.connects[1].url = store["websocket_url"][1]
          /\ obs'.connects[1].started =>
                /\ pc'[0] = "connecting"
                /\ local'[0].url = store["websocket_url"][1]
                /\ local'[0].headers[1].Authorization = store["websocket_token"][1]
          /\ store' = store]_vars

\* boot has found the device activated and is waiting for the socket it
\* asked for with the stored url.
C35_Witness ==
    /\ obs.act = "boot" /\ obs.args = <<FALSE>>
    /\ obs.transitions = <<ACTIVATED, WS_CONNECTING, WS_CONNECTING>>
    /\ pc[0] = "connecting"
    /\ Len(obs.connects) = 1 /\ obs.connects[1].started
    /\ obs.connects[1].url = store["websocket_url"][1]

\* C36: reset() leaves DeviceState uninitialized, the activated flag and the
\* session config absent and no socket of the session before open; and a
\* boot(force_new_device=False) that follows it enters pendingActivation and
\* asks request_config again, calling no connect.
C36_ResetEndsSession ==
    [][/\ obs'.act = "reset" =>
             /\ current_state' = UNINITIALIZED
             /\ store'["activated"] = None
             /\ store'["websocket_url"] = None /\ store'["websocket_token"] = None
             /\ \A k \in Listeners : sockets'[k] # "open"
       /\ (obs.act = "reset" /\ obs'.act = "boot" /\ obs'.args = <<FALSE>>) =>
             /\ current_state' = PENDING_ACTIVATION
             /\ pc'[0] = "ota"
             /\ obs'.connects = <<>>]_vars

\* C37: the packet queue of the player has a capacity that does not depend
\* on how many frames arrive: it never holds as many packets as the wire
\* carries frames (MaxOrderFrames), whatever the playback worker does.
C37_QueueBounded == Len(audio_queue) < MaxOrderFrames

\* C38: at any time at most one socket is open and at most one
\* _listen_messages task is waiting for messages.
C38_OneSocket ==
    /\ Cardinality({k \in Listeners : sockets[k] = "open"}) <= 1
    /\ Cardinality({k \in Listeners : pc[k] = "listen"}) <= 1

\* C39: whenever DeviceState is activated, wsConnecting, wsReady or
\* streaming, the store holds activated = "true".
C39_StateImpliesFlag ==
    current_state \in {ACTIVATED, WS_CONNECTING, WS_READY, STREAMING} =>
        store["activated"] = Some("true")

\* C40: a binary frame that holds the whole S5 message calls the host back
\* exactly once, with on_tts("sentence_start", text), whatever frames came
\* before it on the connection; and after every binary frame that led to a
\* JSON callback json_buffer is empty.
C40_WholeJsonFrameIsOneEvent ==
    /\ (obs.act = "BinaryFrame" /\ obs.frame = Some(Encode(DocTts))) =>
           obs.calls = <<OnTtsS5>>
    /\ (obs.act = "BinaryFrame" /\ \E i \in 1..Len(obs.calls) : IsJsonCall(obs.calls[i])) =>
           json_buffer = <<>>

====
